---- MODULE Spec2Model ----
(***************************************************************************)
(* Address space allocation of fuel-devops: AddressPool creation           *)
(* (devops/models/network.py, AddressPool._safe_create_network and         *)
(* AddressPool.address_pool_create, called by                              *)
(* Environment.add_address_pool) and host address allocation               *)
(* (AddressPool.next_ip, Interface.add_address).                           *)
(*                                                                         *)
(* IP addresses are the integers netaddr works with; an IPNetwork is the   *)
(* record [ip, prefixlen]; the text of a network ("a.b.c.d/p") is the pair *)
(* <<ip, prefixlen>>.  The database is the set of rows of each table; a    *)
(* statement (a query, an INSERT, an UPDATE) is one atomic step.           *)
(***************************************************************************)
EXTENDS Integers, Sequences, FiniteSets, TLC

\* ------------------------------------------------------------ bounds
\* number of address_pool_create calls started in one behaviour
MaxCalls == 2
\* number of concurrent Interface.add_address calls started in one behaviour
MaxAdds == 3
\* number of Interface.add_address calls made one after the other
MaxSeqAdds == 6
\* number of ip_range_set and NetworkPool.ip_range calls in one behaviour
MaxRangeOps == 3
\* number of calls of any kind started in one behaviour of all operations
MaxOps == 3

\* ------------------------------------------------------------ netaddr
\* width of an IPv4 address
AddrBits == 32

RECURSIVE Pow2(_)
Pow2(n) == IF n <= 0 THEN 1 ELSE 2 * Pow2(n - 1)

\* a.b.c.d as the integer netaddr keeps
IPv4(a, b, c, d) == ((a * 256 + b) * 256 + c) * 256 + d

\* IPNetwork('ip/prefixlen')
IPNetwork(ip, prefixlen) == [ip |-> ip, prefixlen |-> prefixlen]

NetSize(n) == Pow2(AddrBits - n.prefixlen)
NetFirst(n) == n.ip - (n.ip % NetSize(n))
NetLast(n) == NetFirst(n) + NetSize(n) - 1

\* str(IPNetwork): the address as given and the prefix length
NetStr(n) == <<n.ip, n.prefixlen>>
\* IPNetwork(text)
NetParse(s) == [ip |-> s[1], prefixlen |-> s[2]]

\* IPNetwork.__getitem__: IndexError outside [-size, size - 1]
IndexInRange(n, i) == (0 - NetSize(n)) <= i /\ i <= NetSize(n) - 1
NetIndex(n, i) == IF i < 0 THEN NetLast(n) + i + 1 ELSE NetFirst(n) + i

\* subnet(prefix) stepping by half a block: a block is yielded twice
RECURSIVE SubnetSeqHalfStep(_, _, _, _)
SubnetSeqHalfStep(first, prefix, k, count) ==
    IF k >= count THEN << >>
    ELSE LET size == Pow2(AddrBits - prefix)
             at == first + (k * size) \div 2
         IN << IPNetwork(at - (at % size), prefix) >>
            \o SubnetSeqHalfStep(first, prefix, k + 1, count)

\* IPNetwork.subnet(prefix): nothing when prefix is shorter than the network's
RECURSIVE SubnetSeq(_, _, _, _)
SubnetSeq(first, prefix, k, count) ==
    IF k >= count THEN << >>
    ELSE << IPNetwork(first + k * Pow2(AddrBits - prefix), prefix) >>
         \o SubnetSeq(first, prefix, k + 1, count)

\* subnet(prefix) without the last block
SubnetOneShort(n, prefix) ==
    IF prefix < n.prefixlen \/ prefix > AddrBits THEN << >>
    ELSE SubnetSeq(NetFirst(n), prefix, 0, Pow2(prefix - n.prefixlen) - 1)

Subnet(n, prefix) ==
    IF prefix < n.prefixlen \/ prefix > AddrBits THEN << >>
    ELSE SubnetSeq(NetFirst(n), prefix, 0, Pow2(prefix - n.prefixlen))

\* ------------------------------------------------------------ helpers
Range(s) == {s[i] : i \in DOMAIN s}

\* the filter keeping everything
SeqFilterOutNone(s, excl) == s

RECURSIVE SeqFilterOut(_, _)
SeqFilterOut(s, excl) ==
    IF s = << >> THEN << >>
    ELSE IF Head(s) \in excl THEN SeqFilterOut(Tail(s), excl)
         ELSE << Head(s) >> \o SeqFilterOut(Tail(s), excl)

\* the enumerator taking the networks from the last to the first
RECURSIVE IpNetworksPoolReversed(_, _, _)
IpNetworksPoolReversed(networks, prefix, allocated) ==
    IF networks = << >> THEN << >>
    ELSE IpNetworksPoolReversed(Tail(networks), prefix, allocated)
         \o SeqFilterOut(Subnet(Head(networks), prefix), allocated)

\* IpNetworksPool(networks, prefix, allocated_networks): per network in
\* order, its subnets of the prefix in increasing order, without those
\* already allocated
RECURSIVE IpNetworksPool(_, _, _)
IpNetworksPool(networks, prefix, allocated) ==
    IF networks = << >> THEN << >>
    ELSE SeqFilterOut(Subnet(Head(networks), prefix), allocated)
         \o IpNetworksPool(Tail(networks), prefix, allocated)

\* ------------------------------------------------------------ inputs
Envs == {"env1", "env2"}
Names == {"pool01", "pool02"}
Callers == {"c1", "c2"}

Net0 == IPNetwork(IPv4(10, 1, 0, 0), 24)
Net1 == IPNetwork(IPv4(10, 1, 1, 0), 24)

\* the 'net' strings of the templates: <<supernets, prefix>> for
\* "10.1.0.0/23:24" and "10.1.1.0/24,10.1.0.0/24:24"
NetSpecs ==
    { << << IPNetwork(IPv4(10, 1, 0, 0), 23) >>, 24 >>,
      << << Net1, Net0 >>, 24 >> }

\* what get_allocated_networks may report: the networks the drivers know,
\* which need not be the subnets of the persisted pools
AllocatedChoices == SUBSET {Net0, Net1}

\* an offset of a template: an int (index into the subnet) or an address
Index(i) == <<"int", i>>
Addr(a) == <<"ip", a>>

NoParams == << >>
ParamsChoices ==
    { [ip_reserved |-> [l2_network_device |-> Index(1)],
       ip_ranges |-> [default |-> << Index(2), Index(0 - 2) >>]],
      [ip_reserved |-> [gateway |-> Index(256)]] }

\* the callers of Interface.add_address
Adders == {"a1", "a2"}

\* the holders of a loaded AddressPool object (Environment.get_address_pool,
\* NetworkPool.address_pool)
Holders == {"h1", "h2"}

\* rows of devops_l2_network_device: the pool (primary key) of each device
L2Devices == {"dev1", "dev2", "dev3"}
DevicePool(dev) ==
    IF dev = "dev3" THEN 2 ELSE IF dev \in {"dev1", "dev2"} THEN 1 ELSE 0

\* the pools the interfaces of the host address allocation live in:
\* 10.1.0.0/29 (pk 1) and 10.1.0.8/30 (pk 2)
HostNet1 == IPNetwork(IPv4(10, 1, 0, 0), 29)
HostNet2 == IPNetwork(IPv4(10, 1, 0, 8), 30)

\* ------------------------------------------------------------ state
VARIABLES
    pools,      \* rows of devops_address_pool
    nextId,     \* next primary key of devops_address_pool
    pc,         \* per caller: where its address_pool_create call stands
    args,       \* per caller: name, environment, pool (the candidates), params
    template,   \* per caller: the ip_reserved and ip_ranges mappings it passed,
                \* which params refers to
    idx,        \* per caller: position of _safe_create_network in the pool
    obj,        \* per caller: the address_pool object it holds
    loop,       \* per caller: how _safe_create_network ended
    outcome,    \* per caller: how address_pool_create ended
    attempts,   \* per caller: the candidates handed to objects.create
    nameHeld,   \* per caller: a pool of the name and environment existed
                \* when the call started
    calls,      \* number of calls started
    interfaces, \* rows of devops_interface
    addresses,  \* rows of devops_address
    nextAddr,   \* next primary key of devops_address
    apc,        \* per adder: where its add_address call stands
    aif,        \* per adder: the interface (primary key) of the call
    aip,        \* per adder: the address next_ip looks at, then returns
    adds,       \* number of add_address calls started
    held,       \* per holder: the AddressPool object it has loaded
    rangeCall,  \* the last call on the ranges of an object, at its holder
    rangeOps,   \* number of calls on ranges made
    enumIn,     \* the arguments of an IpNetworksPool
    enumOut,    \* list(pool) of that IpNetworksPool
    enumDone,   \* the pool has been iterated
    enumError   \* the enumerator refused its input

poolVars == << pools, nextId, pc, args, template, idx, obj, loop, outcome, attempts,
               nameHeld, calls >>
addrVars == << interfaces, addresses, nextAddr, apc, aif, aip, adds >>
rangeVars == << held, rangeCall, rangeOps >>
enumVars == << enumIn, enumOut, enumDone, enumError >>
vars == << poolVars, addrVars, rangeVars, enumVars >>

NoObj == [id |-> 0, environment |-> "", name |-> "", net |-> << 0, 0 >>,
          ip_reserved |-> << >>, ip_ranges |-> << >>]
NoArgs == [name |-> "", environment |-> "", pool |-> << >>, params |-> NoParams]

\* no call on the ranges yet
NoCall == [seq |-> 0, op |-> "", name |-> "", range |-> << >>,
           result |-> << >>]
\* no IpNetworksPool
NoEnum == [networks |-> << >>, prefix |-> 0, allocated |-> {}]

\* nobody holds a pool object, no range call was made
RangesIdle ==
    /\ held = [h \in Holders |-> NoObj]
    /\ rangeCall = [h \in Holders |-> NoCall]
    /\ rangeOps = 0

\* no IpNetworksPool was built
EnumIdle ==
    /\ enumIn = NoEnum
    /\ enumOut = << >>
    /\ enumDone = FALSE
    /\ enumError = FALSE

\* ------------------------------------------------------------ dicts
DictGet(d, k, default) == IF k \in DOMAIN d THEN d[k] ELSE default

\* ------------------------------------------------------------ AddressPool
\* cls.objects.filter(net=str(ip_network)).exists()
NetExists(rows, ip_network) == \E r \in rows : r.net = NetStr(ip_network)

\* the constraint on name alone, whatever the environment
NameTakenAnywhere(rows, name, environment) == \E r \in rows : r.name = name

\* unique_together = ('name', 'environment')
NameTaken(rows, name, environment) ==
    \E r \in rows : r.name = name /\ r.environment = environment

\* the net column without unique=True
NetTakenNever(rows, ip_network) == FALSE

\* net = models.CharField(unique=True)
NetTaken(rows, ip_network) == \E r \in rows : r.net = NetStr(ip_network)

\* the row objects.create inserts: the params as given (a deep copy), the
\* ParamField defaults for those left out
NewRow(id, name, environment, ip_network, params) ==
    [id |-> id, environment |-> environment, name |-> name,
     net |-> NetStr(ip_network),
     ip_reserved |-> DictGet(params, "ip_reserved", << >>),
     ip_ranges |-> DictGet(params, "ip_ranges", << >>)]

\* AddressPool.ip_network
IpNetworkOf(row) == NetParse(row.net)

\* _relative_to_ip
IsIndex(ip_id) == ip_id[1] = "int"
RelativeFails(ip_network, ip_id) ==
    IsIndex(ip_id) /\ ~IndexInRange(ip_network, ip_id[2])

\* _relative_to_ip counting the index from the address after the one meant
RelativeToIpOffByOne(ip_network, ip_id) ==
    IF IsIndex(ip_id) THEN << "ip", NetIndex(ip_network, ip_id[2]) + 1 >>
    ELSE ip_id

\* _relative_to_ip taking an address for an offset from itself
RelativeToIpShifts(ip_network, ip_id) ==
    IF IsIndex(ip_id) THEN Addr(NetIndex(ip_network, ip_id[2]))
    ELSE Addr(ip_id[2] + 1)

RelativeToIp(ip_network, ip_id) ==
    IF IsIndex(ip_id) THEN Addr(NetIndex(ip_network, ip_id[2])) ELSE ip_id

\* str(value) of a stored value: the text of an address is the address, the
\* text of an int its digits
TextOf(v) == IF IsIndex(v) THEN << "text", v[2] >> ELSE v

\* the two loops of address_pool_create over params: an IndexError of
\* ip_network[...] ends the call
ResolveFails(ip_network, params) ==
    \/ /\ "ip_reserved" \in DOMAIN params
       /\ \E k \in DOMAIN params.ip_reserved :
              RelativeFails(ip_network, params.ip_reserved[k])
    \/ /\ "ip_ranges" \in DOMAIN params
       /\ \E k \in DOMAIN params.ip_ranges :
              \/ RelativeFails(ip_network, params.ip_ranges[k][1])
              \/ RelativeFails(ip_network, params.ip_ranges[k][2])

ResolvedReserved(ip_network, cur, params) ==
    IF "ip_reserved" \in DOMAIN params
    THEN [k \in DOMAIN cur \cup DOMAIN params.ip_reserved |->
             IF k \in DOMAIN params.ip_reserved
             THEN RelativeToIp(ip_network, params.ip_reserved[k])
             ELSE cur[k]]
    ELSE cur

ResolvedRanges(ip_network, cur, params) ==
    IF "ip_ranges" \in DOMAIN params
    THEN [k \in DOMAIN cur \cup DOMAIN params.ip_ranges |->
             IF k \in DOMAIN params.ip_ranges
             THEN << RelativeToIp(ip_network, params.ip_ranges[k][1]),
                     RelativeToIp(ip_network, params.ip_ranges[k][2]) >>
             ELSE cur[k]]
    ELSE cur

\* address_pool_create leaving the mappings of the caller as they were
RewrittenNever(ip_network, params) == params

\* params['ip_reserved'][ip_res] = ip and params['ip_ranges'][ip_range] =
\* (ipr_start, ipr_end): the mappings the caller passed hold the addresses
Rewritten(ip_network, params) ==
    [k \in DOMAIN params |->
        IF k = "ip_reserved"
        THEN [r \in DOMAIN params.ip_reserved |->
                 RelativeToIp(ip_network, params.ip_reserved[r])]
        ELSE [r \in DOMAIN params.ip_ranges |->
                 << RelativeToIp(ip_network, params.ip_ranges[r][1]),
                    RelativeToIp(ip_network, params.ip_ranges[r][2]) >>]]

\* the mappings when _relative_to_ip raises IndexError: the entries the
\* loops came to before the one that fails hold addresses (a dict is walked
\* in no fixed order), the others are as they were passed
PartlyRewritten(ip_network, params) ==
    LET resKeys == IF "ip_reserved" \in DOMAIN params
                   THEN DOMAIN params.ip_reserved ELSE {}
        rngKeys == IF "ip_ranges" \in DOMAIN params
                   THEN DOMAIN params.ip_ranges ELSE {}
        resBad == {r \in resKeys :
                      RelativeFails(ip_network, params.ip_reserved[r])}
        rngBad == {r \in rngKeys :
                      \/ RelativeFails(ip_network, params.ip_ranges[r][1])
                      \/ RelativeFails(ip_network, params.ip_ranges[r][2])}
        With(resDone, rngDone) ==
            [k \in DOMAIN params |->
                IF k = "ip_reserved"
                THEN [r \in resKeys |->
                         IF r \in resDone
                         THEN RelativeToIp(ip_network, params.ip_reserved[r])
                         ELSE params.ip_reserved[r]]
                ELSE [r \in rngKeys |->
                         IF r \in rngDone
                         THEN << RelativeToIp(ip_network,
                                              params.ip_ranges[r][1]),
                                 RelativeToIp(ip_network,
                                              params.ip_ranges[r][2]) >>
                         ELSE params.ip_ranges[r]]]
    IN IF resBad # {}
       THEN {With(done, {}) : done \in SUBSET (resKeys \ resBad)}
       ELSE {With(resKeys, done) : done \in SUBSET (rngKeys \ rngBad)}

\* save() writing the network address of the object as a host route
SaveNetAsHost(rows, o) ==
    {r \in rows : r.id # o.id} \cup {[o EXCEPT !.net = << o.net[1], 32 >>]}

\* Model.save(): UPDATE of the row of the object's primary key
Save(rows, o) == {r \in rows : r.id # o.id} \cup {o}

\* ------------------------------------------------------------ actions
Init ==
    /\ pools = {}
    /\ nextId = 1
    /\ pc = [c \in Callers |-> "idle"]
    /\ args = [c \in Callers |-> NoArgs]
    /\ template = [c \in Callers |-> NoParams]
    /\ idx = [c \in Callers |-> 0]
    /\ obj = [c \in Callers |-> NoObj]
    /\ loop = [c \in Callers |-> "none"]
    /\ outcome = [c \in Callers |-> "none"]
    /\ attempts = [c \in Callers |-> << >>]
    /\ nameHeld = [c \in Callers |-> FALSE]
    /\ calls = 0
    /\ interfaces = {}
    /\ addresses = {}
    /\ nextAddr = 1
    /\ apc = [a \in Adders |-> "idle"]
    /\ aif = [a \in Adders |-> 0]
    /\ aip = [a \in Adders |-> 0]
    /\ adds = 0
    /\ RangesIdle
    /\ EnumIdle

\* Environment.add_address_pool up to the first statement of
\* _safe_create_network: the candidates are fixed here
AddAddressPool(c) ==
    /\ pc[c] \in {"idle", "done"}
    /\ calls < MaxCalls
    /\ \E environment \in Envs, name \in Names, spec \in NetSpecs,
          allocated \in AllocatedChoices, params \in ParamsChoices :
          /\ args' = [args EXCEPT ![c] =
                      [name |-> name, environment |-> environment,
                       pool |-> IpNetworksPool(spec[1], spec[2], allocated),
                       params |-> params]]
          /\ template' = [template EXCEPT ![c] = params]
          /\ nameHeld' = [nameHeld EXCEPT ![c] =
                \E r \in pools : /\ r.name = name
                                 /\ r.environment = environment]
    /\ pc' = [pc EXCEPT ![c] = "iter"]
    /\ idx' = [idx EXCEPT ![c] = 1]
    /\ obj' = [obj EXCEPT ![c] = NoObj]
    /\ loop' = [loop EXCEPT ![c] = "none"]
    /\ outcome' = [outcome EXCEPT ![c] = "none"]
    /\ attempts' = [attempts EXCEPT ![c] = << >>]
    /\ calls' = calls + 1
    /\ UNCHANGED << pools, nextId >>
    /\ UNCHANGED << addrVars, rangeVars, enumVars >>

\* the existence check answering True for every candidate
ExistsQuerySkipsAll(c) ==
    /\ pc[c] = "iter"
    /\ idx[c] <= Len(args[c].pool)
    /\ idx' = [idx EXCEPT ![c] = @ + 1]
    /\ UNCHANGED << pools, nextId, pc, args, template, obj, loop, outcome, attempts,
                    nameHeld, calls >>
    /\ UNCHANGED << addrVars, rangeVars, enumVars >>

\* for ip_network in pool: if cls.objects.filter(net=...).exists(): continue
ExistsQuery(c) ==
    /\ pc[c] = "iter"
    /\ idx[c] <= Len(args[c].pool)
    /\ IF NetExists(pools, args[c].pool[idx[c]])
       THEN /\ idx' = [idx EXCEPT ![c] = @ + 1]
            /\ pc' = pc
       ELSE /\ pc' = [pc EXCEPT ![c] = "create"]
            /\ idx' = idx
    /\ UNCHANGED << pools, nextId, args, template, obj, loop, outcome, attempts,
                    nameHeld, calls >>
    /\ UNCHANGED << addrVars, rangeVars, enumVars >>

\* the exhausted pool iterated again from its first candidate
PoolExhaustedRestarts(c) ==
    /\ pc[c] = "iter"
    /\ idx[c] > Len(args[c].pool)
    /\ idx' = [idx EXCEPT ![c] = 1]
    /\ UNCHANGED << pools, nextId, pc, args, template, obj, loop, outcome, attempts,
                    nameHeld, calls >>
    /\ UNCHANGED << addrVars, rangeVars, enumVars >>

\* the pool is exhausted: raise DevopsError("There is no network pool ...")
PoolExhausted(c) ==
    /\ pc[c] = "iter"
    /\ idx[c] > Len(args[c].pool)
    /\ pc' = [pc EXCEPT ![c] = "done"]
    /\ loop' = [loop EXCEPT ![c] = "no_pool"]
    /\ outcome' = [outcome EXCEPT ![c] = "no_pool"]
    /\ UNCHANGED << pools, nextId, args, template, idx, obj, attempts, nameHeld, calls >>
    /\ UNCHANGED << addrVars, rangeVars, enumVars >>

\* the create without the constraint on (name, environment)
CreateOkAnyName(c) ==
    /\ pc[c] = "create"
    /\ ~NetTaken(pools, args[c].pool[idx[c]])
    /\ LET row == NewRow(nextId, args[c].name, args[c].environment,
                         args[c].pool[idx[c]], args[c].params)
       IN /\ pools' = pools \cup {row}
          /\ obj' = [obj EXCEPT ![c] = row]
    /\ nextId' = nextId + 1
    /\ attempts' = [attempts EXCEPT ![c] = Append(@, args[c].pool[idx[c]])]
    /\ loop' = [loop EXCEPT ![c] = "created"]
    /\ pc' = [pc EXCEPT ![c] = "resolve"]
    /\ UNCHANGED << args, template, idx, outcome, nameHeld, calls >>
    /\ UNCHANGED << addrVars, rangeVars, enumVars >>

\* with transaction.atomic(): return cls.objects.create(...)
CreateOk(c) ==
    /\ pc[c] = "create"
    /\ ~NameTaken(pools, args[c].name, args[c].environment)
    /\ ~NetTaken(pools, args[c].pool[idx[c]])
    /\ LET row == NewRow(nextId, args[c].name, args[c].environment,
                         args[c].pool[idx[c]], args[c].params)
       IN /\ pools' = pools \cup {row}
          /\ obj' = [obj EXCEPT ![c] = row]
    /\ nextId' = nextId + 1
    /\ attempts' = [attempts EXCEPT ![c] = Append(@, args[c].pool[idx[c]])]
    /\ loop' = [loop EXCEPT ![c] = "created"]
    /\ pc' = [pc EXCEPT ![c] = "resolve"]
    /\ UNCHANGED << args, template, idx, outcome, nameHeld, calls >>
    /\ UNCHANGED << addrVars, rangeVars, enumVars >>

\* the name conflict handled like a subnet conflict: continue
CreateNameConflictContinues(c) ==
    /\ pc[c] = "create"
    /\ NameTaken(pools, args[c].name, args[c].environment)
    /\ attempts' = [attempts EXCEPT ![c] = Append(@, args[c].pool[idx[c]])]
    /\ idx' = [idx EXCEPT ![c] = @ + 1]
    /\ pc' = [pc EXCEPT ![c] = "iter"]
    /\ UNCHANGED << pools, nextId, args, template, obj, loop, outcome, nameHeld, calls >>
    /\ UNCHANGED << addrVars, rangeVars, enumVars >>

\* IntegrityError of the constraint on (name, environment): 'name' in str(e)
CreateNameConflict(c) ==
    /\ pc[c] = "create"
    /\ NameTaken(pools, args[c].name, args[c].environment)
    /\ attempts' = [attempts EXCEPT ![c] = Append(@, args[c].pool[idx[c]])]
    /\ loop' = [loop EXCEPT ![c] = "name_exists"]
    /\ outcome' = [outcome EXCEPT ![c] = "name_exists"]
    /\ pc' = [pc EXCEPT ![c] = "done"]
    /\ UNCHANGED << pools, nextId, args, template, idx, obj, nameHeld, calls >>
    /\ UNCHANGED << addrVars, rangeVars, enumVars >>

\* the subnet conflict raised to the caller instead of continue
CreateNetConflictRaises(c) ==
    /\ pc[c] = "create"
    /\ NetTaken(pools, args[c].pool[idx[c]])
    /\ attempts' = [attempts EXCEPT ![c] = Append(@, args[c].pool[idx[c]])]
    /\ loop' = [loop EXCEPT ![c] = "net_exists"]
    /\ outcome' = [outcome EXCEPT ![c] = "net_exists"]
    /\ pc' = [pc EXCEPT ![c] = "done"]
    /\ UNCHANGED << pools, nextId, args, template, idx, obj, nameHeld, calls >>
    /\ UNCHANGED << addrVars, rangeVars, enumVars >>

\* the subnet conflict answered by iterating the pool from its start again
CreateNetConflictRestarts(c) ==
    /\ pc[c] = "create"
    /\ NetTaken(pools, args[c].pool[idx[c]])
    /\ attempts' = [attempts EXCEPT ![c] = Append(@, args[c].pool[idx[c]])]
    /\ idx' = [idx EXCEPT ![c] = 1]
    /\ pc' = [pc EXCEPT ![c] = "iter"]
    /\ UNCHANGED << pools, nextId, args, template, obj, loop, outcome, nameHeld, calls >>
    /\ UNCHANGED << addrVars, rangeVars, enumVars >>

\* IntegrityError of the constraint on net: continue
CreateNetConflict(c) ==
    /\ pc[c] = "create"
    /\ NetTaken(pools, args[c].pool[idx[c]])
    /\ attempts' = [attempts EXCEPT ![c] = Append(@, args[c].pool[idx[c]])]
    /\ idx' = [idx EXCEPT ![c] = @ + 1]
    /\ pc' = [pc EXCEPT ![c] = "iter"]
    /\ UNCHANGED << pools, nextId, args, template, obj, loop, outcome, nameHeld, calls >>
    /\ UNCHANGED << addrVars, rangeVars, enumVars >>

\* the translation of ip_reserved and ip_ranges, then address_pool.save()
ResolveAndSave(c) ==
    /\ pc[c] = "resolve"
    /\ ~ResolveFails(IpNetworkOf(obj[c]), args[c].params)
    /\ LET o == [obj[c] EXCEPT
                   !.ip_reserved = ResolvedReserved(IpNetworkOf(obj[c]), @,
                                                    args[c].params),
                   !.ip_ranges = ResolvedRanges(IpNetworkOf(obj[c]), @,
                                                args[c].params)]
       IN /\ obj' = [obj EXCEPT ![c] = o]
          /\ pools' = Save(pools, o)
    /\ outcome' = [outcome EXCEPT ![c] = "created"]
    /\ pc' = [pc EXCEPT ![c] = "done"]
    /\ template' = [template EXCEPT ![c] =
          Rewritten(IpNetworkOf(obj[c]), @)]
    /\ UNCHANGED << nextId, args, idx, loop, attempts, nameHeld, calls >>
    /\ UNCHANGED << addrVars, rangeVars, enumVars >>

\* ip_network[int(ip_id)] raises IndexError: the call ends before save()
ResolveIndexError(c) ==
    /\ pc[c] = "resolve"
    /\ ResolveFails(IpNetworkOf(obj[c]), args[c].params)
    /\ outcome' = [outcome EXCEPT ![c] = "index_error"]
    /\ pc' = [pc EXCEPT ![c] = "done"]
    /\ template' \in { [template EXCEPT ![c] = t] :
                        t \in PartlyRewritten(IpNetworkOf(obj[c]), template[c]) }
    /\ UNCHANGED << pools, nextId, args, idx, obj, loop, attempts, nameHeld,
                    calls >>
    /\ UNCHANGED << addrVars, rangeVars, enumVars >>

Next ==
    \/ \E c \in Callers : AddAddressPool(c)
    \/ \E c \in Callers : ExistsQuery(c)
    \/ \E c \in Callers : PoolExhausted(c)
    \/ \E c \in Callers : CreateOk(c)
    \/ \E c \in Callers : CreateNameConflict(c)
    \/ \E c \in Callers : CreateNetConflict(c)
    \/ \E c \in Callers : ResolveAndSave(c)
    \/ \E c \in Callers : ResolveIndexError(c)

Spec == Init /\ [][Next]_vars

\* ------------------------------------------------------------ host addresses
\* the pool an interface belongs to: interface -> l2_network_device ->
\* address_pool
InterfacePool(ifs, id) ==
    DevicePool((CHOOSE i \in ifs : i.id = id).l2_network_device)

\* the query never finding a row
AddressExistsNever(ifs, rows, pool, ip) == FALSE

\* the query matching an Address row of any pool
AddressExistsAnyPool(ifs, rows, pool, ip) ==
    \E r \in rows : r.ip_address = ip

\* Address.objects.filter(interface__l2_network_device__address_pool=self,
\*                        ip_address=str(ip)).exists()
AddressExists(ifs, rows, pool, ip) ==
    \E r \in rows : /\ r.ip_address = ip
                    /\ \E i \in ifs : i.id = r.interface
                    /\ InterfacePool(ifs, r.interface) = pool

\* IPNetwork.iter_hosts() of IPv4: without the network and the broadcast
\* address when the network has at least four addresses
FirstHost(n) == IF NetSize(n) >= 4 THEN NetFirst(n) + 1 ELSE NetFirst(n)
LastHost(n) == IF NetSize(n) >= 4 THEN NetLast(n) - 1 ELSE NetLast(n)

\* next_ip without the skip of the addresses outside [index 2, index -2]
SkippedHostNever(n, ip) == FALSE

\* next_ip skipping the reserved addresses of the pools of the subnet too
SkippedHostOrReserved(n, ip) ==
    \/ ip < NetIndex(n, 2)
    \/ ip > NetIndex(n, 0 - 2)
    \/ \E r \in pools :
          /\ r.net = NetStr(n)
          /\ \E k \in DOMAIN r.ip_reserved : r.ip_reserved[k] = Addr(ip)

\* if ip < self.ip_network[2] or ip > self.ip_network[-2]: continue
SkippedHost(n, ip) == ip < NetIndex(n, 2) \/ ip > NetIndex(n, 0 - 2)

\* AddressPool.next_ip run without interruption: the first host that is
\* neither skipped nor taken, 0 for DevopsError("No more free addresses")
RECURSIVE NextIpFrom(_, _, _, _, _)
NextIpFrom(ifs, rows, pool, n, ip) ==
    IF ip > LastHost(n) THEN 0
    ELSE IF SkippedHost(n, ip) THEN NextIpFrom(ifs, rows, pool, n, ip + 1)
    ELSE IF AddressExists(ifs, rows, pool, ip)
         THEN NextIpFrom(ifs, rows, pool, n, ip + 1)
    ELSE ip

NextIp(ifs, rows, pool, n) == NextIpFrom(ifs, rows, pool, n, FirstHost(n))

PoolRow(rows, id) == CHOOSE r \in rows : r.id = id

\* the network of the pool of the interface of an adder
AdderPool(a) == InterfacePool(interfaces, aif[a])
AdderNet(a) == IpNetworkOf(PoolRow(pools, AdderPool(a)))

\* the state the host address allocation starts from: two pools, one
\* interface on each of the devices
ResolvedRow(id, environment, name, n) ==
    [id |-> id, environment |-> environment, name |-> name, net |-> NetStr(n),
     ip_reserved |-> << >>, ip_ranges |-> << >>]

InitHosts ==
    /\ pools = { ResolvedRow(1, "env1", "pool01", HostNet1),
                 ResolvedRow(2, "env1", "pool02", HostNet2) }
    /\ nextId = 3
    /\ pc = [c \in Callers |-> "idle"]
    /\ args = [c \in Callers |-> NoArgs]
    /\ template = [c \in Callers |-> NoParams]
    /\ idx = [c \in Callers |-> 0]
    /\ obj = [c \in Callers |-> NoObj]
    /\ loop = [c \in Callers |-> "none"]
    /\ outcome = [c \in Callers |-> "none"]
    /\ attempts = [c \in Callers |-> << >>]
    /\ nameHeld = [c \in Callers |-> FALSE]
    /\ calls = 0
    /\ interfaces = { [id |-> 1, l2_network_device |-> "dev1"],
                      [id |-> 2, l2_network_device |-> "dev2"],
                      [id |-> 3, l2_network_device |-> "dev3"] }
    /\ addresses = {}
    /\ nextAddr = 1
    /\ apc = [a \in Adders |-> "idle"]
    /\ aif = [a \in Adders |-> 0]
    /\ aip = [a \in Adders |-> 0]
    /\ adds = 0
    /\ RangesIdle
    /\ EnumIdle

\* Interface.add_address: next_ip starts with the first host
AddAddress(a) ==
    /\ apc[a] \in {"idle", "done", "failed", "index_error"}
    /\ adds < MaxAdds
    /\ \E i \in interfaces :
          /\ aif' = [aif EXCEPT ![a] = i.id]
          /\ aip' = [aip EXCEPT ![a] =
                        FirstHost(IpNetworkOf(PoolRow(pools,
                            DevicePool(i.l2_network_device))))]
    /\ apc' = [apc EXCEPT ![a] = "scan"]
    /\ adds' = adds + 1
    /\ UNCHANGED << interfaces, addresses, nextAddr >>
    /\ UNCHANGED << poolVars, rangeVars, enumVars >>

\* next_ip: the address is outside [index 2, index -2]: continue
NextIpSkip(a) ==
    /\ apc[a] = "scan"
    /\ aip[a] <= LastHost(AdderNet(a))
    /\ IndexInRange(AdderNet(a), 2)
    /\ SkippedHost(AdderNet(a), aip[a])
    /\ aip' = [aip EXCEPT ![a] = @ + 1]
    /\ UNCHANGED << interfaces, addresses, nextAddr, apc, aif, adds >>
    /\ UNCHANGED << poolVars, rangeVars, enumVars >>

\* next_ip: the query finds an Address row of the pool: continue
NextIpTaken(a) ==
    /\ apc[a] = "scan"
    /\ aip[a] <= LastHost(AdderNet(a))
    /\ IndexInRange(AdderNet(a), 2)
    /\ ~SkippedHost(AdderNet(a), aip[a])
    /\ AddressExists(interfaces, addresses, AdderPool(a), aip[a])
    /\ aip' = [aip EXCEPT ![a] = @ + 1]
    /\ UNCHANGED << interfaces, addresses, nextAddr, apc, aif, adds >>
    /\ UNCHANGED << poolVars, rangeVars, enumVars >>

\* next_ip: the query finds no row: return ip
NextIpFree(a) ==
    /\ apc[a] = "scan"
    /\ aip[a] <= LastHost(AdderNet(a))
    /\ IndexInRange(AdderNet(a), 2)
    /\ ~SkippedHost(AdderNet(a), aip[a])
    /\ ~AddressExists(interfaces, addresses, AdderPool(a), aip[a])
    /\ apc' = [apc EXCEPT ![a] = "create"]
    /\ UNCHANGED << interfaces, addresses, nextAddr, aif, aip, adds >>
    /\ UNCHANGED << poolVars, rangeVars, enumVars >>

\* next_ip failing and the interface of the call being deleted
NextIpNoneRollsBack(a) ==
    /\ apc[a] = "scan"
    /\ aip[a] > LastHost(AdderNet(a))
    /\ apc' = [apc EXCEPT ![a] = "failed"]
    /\ interfaces' = {i \in interfaces : i.id # aif[a]}
    /\ UNCHANGED << addresses, nextAddr, aif, aip, adds >>
    /\ UNCHANGED << poolVars, rangeVars, enumVars >>

\* next_ip: raise DevopsError("No more free addresses ...")
NextIpNone(a) ==
    /\ apc[a] = "scan"
    /\ aip[a] > LastHost(AdderNet(a))
    /\ apc' = [apc EXCEPT ![a] = "failed"]
    /\ UNCHANGED << interfaces, addresses, nextAddr, aif, aip, adds >>
    /\ UNCHANGED << poolVars, rangeVars, enumVars >>

\* Address.objects.create(ip_address=str(ip), interface=self)
CreateAddress(a) ==
    /\ apc[a] = "create"
    /\ addresses' = addresses \cup
          {[id |-> nextAddr, interface |-> aif[a], ip_address |-> aip[a]]}
    /\ nextAddr' = nextAddr + 1
    /\ apc' = [apc EXCEPT ![a] = "done"]
    /\ UNCHANGED << interfaces, aif, aip, adds >>
    /\ UNCHANGED << poolVars, rangeVars, enumVars >>

NextHosts ==
    \/ \E a \in Adders : AddAddress(a)
    \/ \E a \in Adders : NextIpSkip(a)
    \/ \E a \in Adders : NextIpTaken(a)
    \/ \E a \in Adders : NextIpFree(a)
    \/ \E a \in Adders : NextIpNone(a)
    \/ \E a \in Adders : CreateAddress(a)

SpecHosts == InitHosts /\ [][NextHosts]_vars

\* Interface.add_address called by one caller at a time: next_ip and the
\* INSERT of one call are over before the next call starts
AddAddressAlone(i) ==
    /\ adds < MaxSeqAdds
    /\ \A a \in Adders : apc[a] = "idle"
    /\ LET pool == DevicePool(i.l2_network_device)
           ip == NextIp(interfaces, addresses, pool,
                        IpNetworkOf(PoolRow(pools, pool)))
       IN /\ ip # 0
          /\ addresses' = addresses \cup
                {[id |-> nextAddr, interface |-> i.id, ip_address |-> ip]}
    /\ nextAddr' = nextAddr + 1
    /\ adds' = adds + 1
    /\ UNCHANGED << interfaces, apc, aif, aip >>
    /\ UNCHANGED << poolVars, rangeVars, enumVars >>

\* the same, next_ip raising DevopsError: no row is created
AddAddressAloneFails(i) ==
    /\ adds < MaxSeqAdds
    /\ \A a \in Adders : apc[a] = "idle"
    /\ LET pool == DevicePool(i.l2_network_device)
       IN NextIp(interfaces, addresses, pool,
                 IpNetworkOf(PoolRow(pools, pool))) = 0
    /\ adds' = adds + 1
    /\ UNCHANGED << interfaces, addresses, nextAddr, apc, aif, aip >>
    /\ UNCHANGED << poolVars, rangeVars, enumVars >>

NextAlone ==
    \/ \E i \in interfaces : AddAddressAlone(i)
    \/ \E i \in interfaces : AddAddressAloneFails(i)

SpecAlone == InitHosts /\ [][NextAlone]_vars

\* ------------------------------------------------------------ small subnets
\* a subnet of two addresses
SmallNet == IPNetwork(IPv4(10, 1, 0, 16), 31)

\* the host address allocation starting with a pool of four addresses and a
\* pool of two
InitSmall ==
    /\ pools = { ResolvedRow(1, "env1", "pool01", HostNet2),
                 ResolvedRow(2, "env1", "pool02", SmallNet) }
    /\ nextId = 3
    /\ pc = [c \in Callers |-> "idle"]
    /\ args = [c \in Callers |-> NoArgs]
    /\ template = [c \in Callers |-> NoParams]
    /\ idx = [c \in Callers |-> 0]
    /\ obj = [c \in Callers |-> NoObj]
    /\ loop = [c \in Callers |-> "none"]
    /\ outcome = [c \in Callers |-> "none"]
    /\ attempts = [c \in Callers |-> << >>]
    /\ nameHeld = [c \in Callers |-> FALSE]
    /\ calls = 0
    /\ interfaces = { [id |-> 1, l2_network_device |-> "dev1"],
                      [id |-> 2, l2_network_device |-> "dev2"],
                      [id |-> 3, l2_network_device |-> "dev3"] }
    /\ addresses = {}
    /\ nextAddr = 1
    /\ apc = [a \in Adders |-> "idle"]
    /\ aif = [a \in Adders |-> 0]
    /\ aip = [a \in Adders |-> 0]
    /\ adds = 0
    /\ RangesIdle
    /\ EnumIdle

\* next_ip: iter_hosts() yields the addresses of a subnet of fewer than four
\* and self.ip_network[2] raises IndexError
NextIpIndexError(a) ==
    /\ apc[a] = "scan"
    /\ aip[a] <= LastHost(AdderNet(a))
    /\ ~IndexInRange(AdderNet(a), 2)
    /\ apc' = [apc EXCEPT ![a] = "index_error"]
    /\ UNCHANGED << interfaces, addresses, nextAddr, aif, aip, adds >>
    /\ UNCHANGED << poolVars, rangeVars, enumVars >>

\* next_ip: a netaddr whose iter_hosts() yields nothing for a subnet of fewer
\* than four addresses: the loop is empty, DevopsError is raised
NextIpNoHosts(a) ==
    /\ apc[a] = "scan"
    /\ NetSize(AdderNet(a)) < 4
    /\ apc' = [apc EXCEPT ![a] = "failed"]
    /\ UNCHANGED << interfaces, addresses, nextAddr, aif, aip, adds >>
    /\ UNCHANGED << poolVars, rangeVars, enumVars >>

NextSmall ==
    \/ NextHosts
    \/ \E a \in Adders : NextIpIndexError(a)
    \/ \E a \in Adders : NextIpNoHosts(a)

SpecSmall == InitSmall /\ [][NextSmall]_vars

\* ------------------------------------------------------------ enumerator
MaxSupernets == 2

\* the supernets of the lists: nested, equal, disjoint, of three sizes
Supernets ==
    { IPNetwork(IPv4(10, 1, 0, 0), 22), IPNetwork(IPv4(10, 1, 0, 0), 23),
      IPNetwork(IPv4(10, 1, 2, 0), 23), IPNetwork(IPv4(10, 1, 0, 0), 24) }

\* the target prefixes: 23 is shorter than the prefix of a /24
Prefixes == {23, 24, 25}

\* the allocated networks
AllocatedNets ==
    { IPNetwork(IPv4(10, 1, 0, 0), 24), IPNetwork(IPv4(10, 1, 1, 0), 24),
      IPNetwork(IPv4(10, 1, 3, 0), 24) }

SupernetLists == UNION { [1 .. k -> Supernets] : k \in 0 .. MaxSupernets }

\* IpNetworksPool(networks, prefix, allocated_networks) constructed, not
\* yet iterated
InitEnum ==
    /\ pools = {}
    /\ nextId = 1
    /\ pc = [c \in Callers |-> "idle"]
    /\ args = [c \in Callers |-> NoArgs]
    /\ template = [c \in Callers |-> NoParams]
    /\ idx = [c \in Callers |-> 0]
    /\ obj = [c \in Callers |-> NoObj]
    /\ loop = [c \in Callers |-> "none"]
    /\ outcome = [c \in Callers |-> "none"]
    /\ attempts = [c \in Callers |-> << >>]
    /\ nameHeld = [c \in Callers |-> FALSE]
    /\ calls = 0
    /\ interfaces = {}
    /\ addresses = {}
    /\ nextAddr = 1
    /\ apc = [a \in Adders |-> "idle"]
    /\ aif = [a \in Adders |-> 0]
    /\ aip = [a \in Adders |-> 0]
    /\ adds = 0
    /\ RangesIdle
    /\ enumIn \in [networks : SupernetLists, prefix : Prefixes,
                    allocated : SUBSET AllocatedNets]
    /\ enumOut = << >>
    /\ enumDone = FALSE
    /\ enumError = FALSE

\* the target prefix is shorter than the prefix of one of the networks
PrefixShorter(networks, prefix) ==
    \E i \in DOMAIN networks : prefix < networks[i].prefixlen

\* a target prefix shorter than the prefix of a network: configuration error
EnumerateRejected ==
    /\ ~enumDone
    /\ PrefixShorter(enumIn.networks, enumIn.prefix)
    /\ enumError' = TRUE
    /\ enumDone' = TRUE
    /\ UNCHANGED << enumIn, enumOut >>
    /\ UNCHANGED << poolVars, addrVars, rangeVars >>

\* list(pool): the whole iteration
Enumerate ==
    /\ ~enumDone
    /\ ~PrefixShorter(enumIn.networks, enumIn.prefix)
    /\ enumOut' = IpNetworksPool(enumIn.networks, enumIn.prefix,
                                 enumIn.allocated)
    /\ enumDone' = TRUE
    /\ UNCHANGED << enumIn, enumError >>
    /\ UNCHANGED << poolVars, addrVars, rangeVars >>

NextEnum == Enumerate \/ EnumerateRejected

SpecEnum == InitEnum /\ [][NextEnum]_vars

\* ------------------------------------------------------------ prefixes
\* 'net' strings with different target prefixes over the same supernet,
\* "10.1.0.0/23:23" and "10.1.0.0/23:24", and with a prefix shorter than
\* the prefix of a supernet, "10.1.0.0/24:23" and "10.1.0.0/23,10.1.1.0/24:23"
PrefixNetSpecs ==
    { << << IPNetwork(IPv4(10, 1, 0, 0), 23) >>, 23 >>,
      << << IPNetwork(IPv4(10, 1, 0, 0), 23) >>, 24 >>,
      << << Net0 >>, 23 >>,
      << << IPNetwork(IPv4(10, 1, 0, 0), 23), Net1 >>, 23 >> }

\* what get_allocated_networks reports in these calls
PrefixAllocated == { {}, {Net0} }

\* Environment.add_address_pool with a 'net' the enumerator accepts, up to
\* the first statement of _safe_create_network
AddAddressPoolPrefix(c) ==
    /\ pc[c] \in {"idle", "done"}
    /\ calls < MaxCalls
    /\ \E name \in Names, spec \in PrefixNetSpecs,
          allocated \in PrefixAllocated :
          /\ ~PrefixShorter(spec[1], spec[2])
          /\ args' = [args EXCEPT ![c] =
                      [name |-> name, environment |-> "env1",
                       pool |-> IpNetworksPool(spec[1], spec[2], allocated),
                       params |-> NoParams, net |-> spec]]
          /\ template' = [template EXCEPT ![c] = NoParams]
          /\ nameHeld' = [nameHeld EXCEPT ![c] =
                \E r \in pools : /\ r.name = name
                                 /\ r.environment = "env1"]
    /\ pc' = [pc EXCEPT ![c] = "iter"]
    /\ idx' = [idx EXCEPT ![c] = 1]
    /\ obj' = [obj EXCEPT ![c] = NoObj]
    /\ loop' = [loop EXCEPT ![c] = "none"]
    /\ outcome' = [outcome EXCEPT ![c] = "none"]
    /\ attempts' = [attempts EXCEPT ![c] = << >>]
    /\ calls' = calls + 1
    /\ UNCHANGED << pools, nextId >>
    /\ UNCHANGED << addrVars, rangeVars, enumVars >>

\* add_address_pool going on with the empty enumeration of a refused 'net'
AddAddressPoolRejectedAsEmpty(c) ==
    /\ pc[c] \in {"idle", "done"}
    /\ calls < MaxCalls
    /\ \E name \in Names, spec \in PrefixNetSpecs,
          allocated \in PrefixAllocated :
          /\ PrefixShorter(spec[1], spec[2])
          /\ args' = [args EXCEPT ![c] =
                      [name |-> name, environment |-> "env1",
                       pool |-> << >>, params |-> NoParams, net |-> spec]]
          /\ template' = [template EXCEPT ![c] = NoParams]
          /\ nameHeld' = [nameHeld EXCEPT ![c] =
                \E r \in pools : /\ r.name = name
                                 /\ r.environment = "env1"]
    /\ pc' = [pc EXCEPT ![c] = "iter"]
    /\ idx' = [idx EXCEPT ![c] = 1]
    /\ obj' = [obj EXCEPT ![c] = NoObj]
    /\ loop' = [loop EXCEPT ![c] = "none"]
    /\ outcome' = [outcome EXCEPT ![c] = "none"]
    /\ attempts' = [attempts EXCEPT ![c] = << >>]
    /\ calls' = calls + 1
    /\ UNCHANGED << pools, nextId >>
    /\ UNCHANGED << addrVars, rangeVars, enumVars >>

\* Environment.add_address_pool with a target prefix shorter than the
\* prefix of a supernet: the error of the enumerator ends the call, nothing
\* in add_address_pool or address_pool_create catches it
AddAddressPoolRejected(c) ==
    /\ pc[c] \in {"idle", "done"}
    /\ calls < MaxCalls
    /\ \E name \in Names, spec \in PrefixNetSpecs,
          allocated \in PrefixAllocated :
          /\ PrefixShorter(spec[1], spec[2])
          /\ args' = [args EXCEPT ![c] =
                      [name |-> name, environment |-> "env1",
                       pool |-> << >>, params |-> NoParams, net |-> spec]]
          /\ template' = [template EXCEPT ![c] = NoParams]
          /\ nameHeld' = [nameHeld EXCEPT ![c] =
                \E r \in pools : /\ r.name = name
                                 /\ r.environment = "env1"]
    /\ pc' = [pc EXCEPT ![c] = "done"]
    /\ idx' = [idx EXCEPT ![c] = 0]
    /\ obj' = [obj EXCEPT ![c] = NoObj]
    /\ loop' = [loop EXCEPT ![c] = "none"]
    /\ outcome' = [outcome EXCEPT ![c] = "config_error"]
    /\ attempts' = [attempts EXCEPT ![c] = << >>]
    /\ calls' = calls + 1
    /\ UNCHANGED << pools, nextId >>
    /\ UNCHANGED << addrVars, rangeVars, enumVars >>

NextPrefixes ==
    \/ \E c \in Callers : AddAddressPoolPrefix(c)
    \/ \E c \in Callers : AddAddressPoolRejected(c)
    \/ \E c \in Callers : ExistsQuery(c)
    \/ \E c \in Callers : PoolExhausted(c)
    \/ \E c \in Callers : CreateOk(c)
    \/ \E c \in Callers : CreateNameConflict(c)
    \/ \E c \in Callers : CreateNetConflict(c)
    \/ \E c \in Callers : ResolveAndSave(c)

SpecPrefixes == Init /\ [][NextPrefixes]_vars

\* a statement of a call that has started: the interpreter goes on running
\* every call, none waits for another (each query and INSERT is its own
\* transaction)
CallStep(c) ==
    \/ ExistsQuery(c)
    \/ PoolExhausted(c)
    \/ CreateOk(c)
    \/ CreateNameConflict(c)
    \/ CreateNetConflict(c)
    \/ ResolveAndSave(c)
    \/ ResolveIndexError(c)

SpecPrefixesFair ==
    /\ Init
    /\ [][NextPrefixes]_vars
    /\ \A c \in Callers : WF_vars(CallStep(c))

\* ------------------------------------------------------------ offsets
\* the params address_pool_create is called with directly: indexes from both
\* ends of the subnet, addresses, an index outside a /24
WideParams ==
    { NoParams,
      [ip_reserved |-> [l2_network_device |-> Index(1)]],
      [ip_reserved |-> [gateway |-> Index(0 - 1),
                        l2_network_device |-> Index(0)],
       ip_ranges |-> [default |-> << Index(255), Index(0 - 256) >>]],
      [ip_reserved |-> [gateway |-> Addr(IPv4(10, 1, 0, 1))],
       ip_ranges |-> [floating |-> << Index(128),
                                      Addr(IPv4(10, 1, 0, 254)) >>]],
      [ip_reserved |-> [gateway |-> Addr(IPv4(10, 9, 9, 9))]],
      [ip_reserved |-> [gateway |-> Index(0 - 257)]] }

\* the pools (iterables of networks) it is called with
PoolChoices == { << Net0 >>, << Net0, Net1 >> }

\* AddressPool.address_pool_create called with a pool, up to the first
\* statement of _safe_create_network
AddressPoolCreate(c) ==
    /\ pc[c] \in {"idle", "done"}
    /\ calls < MaxCalls
    /\ \E name \in Names, pool \in PoolChoices, params \in WideParams :
          /\ args' = [args EXCEPT ![c] =
                      [name |-> name, environment |-> "env1",
                       pool |-> pool, params |-> params]]
          /\ template' = [template EXCEPT ![c] = params]
          /\ nameHeld' = [nameHeld EXCEPT ![c] =
                \E r \in pools : /\ r.name = name
                                 /\ r.environment = "env1"]
    /\ pc' = [pc EXCEPT ![c] = "iter"]
    /\ idx' = [idx EXCEPT ![c] = 1]
    /\ obj' = [obj EXCEPT ![c] = NoObj]
    /\ loop' = [loop EXCEPT ![c] = "none"]
    /\ outcome' = [outcome EXCEPT ![c] = "none"]
    /\ attempts' = [attempts EXCEPT ![c] = << >>]
    /\ calls' = calls + 1
    /\ UNCHANGED << pools, nextId >>
    /\ UNCHANGED << addrVars, rangeVars, enumVars >>

NextParams ==
    \/ \E c \in Callers : AddressPoolCreate(c)
    \/ \E c \in Callers : ExistsQuery(c)
    \/ \E c \in Callers : PoolExhausted(c)
    \/ \E c \in Callers : CreateOk(c)
    \/ \E c \in Callers : CreateNameConflict(c)
    \/ \E c \in Callers : CreateNetConflict(c)
    \/ \E c \in Callers : ResolveAndSave(c)
    \/ \E c \in Callers : ResolveIndexError(c)

SpecParams == Init /\ [][NextParams]_vars

\* get_ip raising KeyError for a name that is not reserved
GetIpRaises(o, ip_name) ==
    IF ip_name \in DOMAIN o.ip_reserved
    THEN TextOf(o.ip_reserved[ip_name]) ELSE << "KeyError" >>

\* AddressPool.get_ip
GetIp(o, ip_name) ==
    IF ip_name \in DOMAIN o.ip_reserved
    THEN TextOf(o.ip_reserved[ip_name]) ELSE << "None" >>

\* ------------------------------------------------------------ ranges
\* the names ranges are set under; the group of the NetworkPool of a holder
RangeNames == {"default", "floating"}
GroupName(h) == IF h = "h1" THEN "default" ELSE "rack02"
NoneName == "None"

\* the ranges ip_range_set is called with, for a network
RangeChoices(n) ==
    { << Addr(NetIndex(n, 2)), Addr(NetIndex(n, 127)) >>,
      << Addr(NetIndex(n, 128)), Addr(NetIndex(n, 0 - 2)) >> }

\* the state the calls on ranges start from: a pool created with
\* ip_ranges = {default: [2, -2]} and one created without params
InitRanges ==
    /\ pools = { [ResolvedRow(1, "env1", "pool01", Net0) EXCEPT
                     !.ip_ranges = [default |-> << Addr(NetIndex(Net0, 2)),
                                                  Addr(NetIndex(Net0, 0 - 2)) >>]],
                 ResolvedRow(2, "env1", "pool02", Net1) }
    /\ nextId = 3
    /\ pc = [c \in Callers |-> "idle"]
    /\ args = [c \in Callers |-> NoArgs]
    /\ template = [c \in Callers |-> NoParams]
    /\ idx = [c \in Callers |-> 0]
    /\ obj = [c \in Callers |-> NoObj]
    /\ loop = [c \in Callers |-> "none"]
    /\ outcome = [c \in Callers |-> "none"]
    /\ attempts = [c \in Callers |-> << >>]
    /\ nameHeld = [c \in Callers |-> FALSE]
    /\ calls = 0
    /\ interfaces = {}
    /\ addresses = {}
    /\ nextAddr = 1
    /\ apc = [a \in Adders |-> "idle"]
    /\ aif = [a \in Adders |-> 0]
    /\ aip = [a \in Adders |-> 0]
    /\ adds = 0
    /\ RangesIdle
    /\ EnumIdle

\* AddressPool.ip_range_start, AddressPool.ip_range_end
IpRangeStart(o, range_name) ==
    IF range_name \in DOMAIN o.ip_ranges
    THEN TextOf(o.ip_ranges[range_name][1]) ELSE << "None" >>
IpRangeEnd(o, range_name) ==
    IF range_name \in DOMAIN o.ip_ranges
    THEN TextOf(o.ip_ranges[range_name][2]) ELSE << "None" >>

\* self.ip_ranges[range_name] = (ip_range_start, ip_range_end)
WithRange(o, range_name, range) ==
    [o EXCEPT !.ip_ranges =
        [k \in DOMAIN o.ip_ranges \cup {range_name} |->
            IF k = range_name THEN range ELSE o.ip_ranges[k]]]

\* Environment.get_address_pool: the object is the row as it is now
LoadPool(h) ==
    /\ \E r \in pools : held' = [held EXCEPT ![h] = r]
    /\ UNCHANGED << rangeCall, rangeOps >>
    /\ UNCHANGED << poolVars, addrVars, enumVars >>

\* ip_range_set overwriting a range that exists
IpRangeSetOverwrites(h) ==
    /\ held[h] # NoObj
    /\ rangeOps < MaxRangeOps
    /\ \E range_name \in RangeNames :
       \E range \in RangeChoices(IpNetworkOf(held[h])) :
          /\ range_name \in DOMAIN held[h].ip_ranges
          /\ held' = [held EXCEPT ![h] = WithRange(@, range_name, range)]
          /\ pools' = Save(pools, WithRange(held[h], range_name, range))
          /\ rangeCall' = [[k \in Holders |-> NoCall] EXCEPT ![h] =
                [seq |-> rangeOps + 1, op |-> "ip_range_set", name |-> range_name,
                 range |-> range, result |-> << "ok" >>]]
    /\ rangeOps' = rangeOps + 1
    /\ UNCHANGED << nextId, pc, args, template, idx, obj, loop, outcome, attempts,
                    nameHeld, calls >>
    /\ UNCHANGED << addrVars, enumVars >>

\* ip_range_set with a range name the object has: raise DevopsError
IpRangeSetExists(h) ==
    /\ held[h] # NoObj
    /\ rangeOps < MaxRangeOps
    /\ \E range_name \in RangeNames :
       \E range \in RangeChoices(IpNetworkOf(held[h])) :
          /\ range_name \in DOMAIN held[h].ip_ranges
          /\ rangeCall' = [[k \in Holders |-> NoCall] EXCEPT ![h] =
                [seq |-> rangeOps + 1, op |-> "ip_range_set", name |-> range_name,
                 range |-> range, result |-> << "error" >>]]
    /\ rangeOps' = rangeOps + 1
    /\ UNCHANGED held
    /\ UNCHANGED << poolVars, addrVars, enumVars >>

\* ip_range_set with a new range name: the object gets the range and is
\* saved
IpRangeSet(h) ==
    /\ held[h] # NoObj
    /\ rangeOps < MaxRangeOps
    /\ \E range_name \in RangeNames :
       \E range \in RangeChoices(IpNetworkOf(held[h])) :
          /\ range_name \notin DOMAIN held[h].ip_ranges
          /\ held' = [held EXCEPT ![h] = WithRange(@, range_name, range)]
          /\ pools' = Save(pools, WithRange(held[h], range_name, range))
          /\ rangeCall' = [[k \in Holders |-> NoCall] EXCEPT ![h] =
                [seq |-> rangeOps + 1, op |-> "ip_range_set", name |-> range_name,
                 range |-> range, result |-> << "ok" >>]]
    /\ rangeOps' = rangeOps + 1
    /\ UNCHANGED << nextId, pc, args, template, idx, obj, loop, outcome, attempts,
                    nameHeld, calls >>
    /\ UNCHANGED << addrVars, enumVars >>

\* the range name NetworkPool.ip_range works with
EffectiveName(h, range_name) ==
    IF range_name = NoneName THEN GroupName(h) ELSE range_name

\* NetworkPool.ip_range, the range is in address_pool.ip_ranges: return it
IpRangeStored(h) ==
    /\ held[h] # NoObj
    /\ rangeOps < MaxRangeOps
    /\ \E range_name \in RangeNames \cup {NoneName} :
       \E relative_start \in {2, 3} :
          LET name == EffectiveName(h, range_name)
          IN /\ name \in DOMAIN held[h].ip_ranges
             /\ rangeCall' = [[k \in Holders |-> NoCall] EXCEPT ![h] =
                   [seq |-> rangeOps + 1, op |-> "ip_range",
                    name |-> range_name,
                    range |-> << relative_start, 0 - 2 >>,
                    result |-> << IpRangeStart(held[h], name),
                                  IpRangeEnd(held[h], name) >>]]
    /\ rangeOps' = rangeOps + 1
    /\ UNCHANGED held
    /\ UNCHANGED << poolVars, addrVars, enumVars >>

\* NetworkPool.ip_range, the range is not there: it is computed from
\* relative_start and relative_end, set and returned
IpRangeDefault(h) ==
    /\ held[h] # NoObj
    /\ rangeOps < MaxRangeOps
    /\ \E range_name \in RangeNames \cup {NoneName} :
       \E relative_start \in {2, 3} :
          LET name == EffectiveName(h, range_name)
              n == IpNetworkOf(held[h])
              range == << Addr(NetIndex(n, relative_start)),
                          Addr(NetIndex(n, 0 - 2)) >>
          IN /\ name \notin DOMAIN held[h].ip_ranges
             /\ held' = [held EXCEPT ![h] = WithRange(@, name, range)]
             /\ pools' = Save(pools, WithRange(held[h], name, range))
             /\ rangeCall' = [[k \in Holders |-> NoCall] EXCEPT ![h] =
                   [seq |-> rangeOps + 1, op |-> "ip_range",
                    name |-> range_name,
                    range |-> << relative_start, 0 - 2 >>,
                    result |-> range]]
    /\ rangeOps' = rangeOps + 1
    /\ UNCHANGED << nextId, pc, args, template, idx, obj, loop, outcome, attempts,
                    nameHeld, calls >>
    /\ UNCHANGED << addrVars, enumVars >>

NextRanges ==
    \/ \E h \in Holders : LoadPool(h)
    \/ \E h \in Holders : IpRangeSet(h)
    \/ \E h \in Holders : IpRangeSetExists(h)
    \/ \E h \in Holders : IpRangeStored(h)
    \/ \E h \in Holders : IpRangeDefault(h)

SpecRanges == InitRanges /\ [][NextRanges]_vars

\* ------------------------------------------------------------ reads
\* the names reserved addresses are asked by
ReservedNames == {"gateway", "l2_network_device"}

\* a subnet of one address
HostRoute == IPNetwork(IPv4(10, 1, 2, 0), 32)

\* the state the reads start from: a pool created with a gateway and a
\* range, a pool created without params, a pool of one address
InitReads ==
    /\ pools = { [ResolvedRow(1, "env1", "pool01", Net0) EXCEPT
                     !.ip_reserved = [gateway |-> Addr(NetIndex(Net0, 0 - 2))],
                     !.ip_ranges = [default |-> << Addr(NetIndex(Net0, 2)),
                                                  Addr(NetIndex(Net0, 127)) >>]],
                 ResolvedRow(2, "env1", "pool02", Net1),
                 ResolvedRow(3, "env1", "pool03", HostRoute) }
    /\ nextId = 4
    /\ pc = [c \in Callers |-> "idle"]
    /\ args = [c \in Callers |-> NoArgs]
    /\ template = [c \in Callers |-> NoParams]
    /\ idx = [c \in Callers |-> 0]
    /\ obj = [c \in Callers |-> NoObj]
    /\ loop = [c \in Callers |-> "none"]
    /\ outcome = [c \in Callers |-> "none"]
    /\ attempts = [c \in Callers |-> << >>]
    /\ nameHeld = [c \in Callers |-> FALSE]
    /\ calls = 0
    /\ interfaces = {}
    /\ addresses = {}
    /\ nextAddr = 1
    /\ apc = [a \in Adders |-> "idle"]
    /\ aif = [a \in Adders |-> 0]
    /\ aip = [a \in Adders |-> 0]
    /\ adds = 0
    /\ RangesIdle
    /\ EnumIdle

\* a call that reads the object of a holder: nothing but the record of the
\* call changes
ReadCall(h, op, name, result) ==
    /\ rangeCall' = [[k \in Holders |-> NoCall] EXCEPT ![h] =
          [seq |-> rangeOps + 1, op |-> op, name |-> name,
           range |-> << >>, result |-> result]]
    /\ rangeOps' = rangeOps + 1
    /\ UNCHANGED held
    /\ UNCHANGED << poolVars, addrVars, enumVars >>

\* pool.get_ip(ip_name)
GetIpCall(h) ==
    /\ held[h] # NoObj
    /\ rangeOps < MaxRangeOps
    /\ \E ip_name \in ReservedNames :
          ReadCall(h, "get_ip", ip_name, GetIp(held[h], ip_name))

\* pool.ip_range_start(range_name)
IpRangeStartCall(h) ==
    /\ held[h] # NoObj
    /\ rangeOps < MaxRangeOps
    /\ \E range_name \in RangeNames :
          ReadCall(h, "ip_range_start", range_name,
                   IpRangeStart(held[h], range_name))

\* pool.ip_range_end(range_name)
IpRangeEndCall(h) ==
    /\ held[h] # NoObj
    /\ rangeOps < MaxRangeOps
    /\ \E range_name \in RangeNames :
          ReadCall(h, "ip_range_end", range_name,
                   IpRangeEnd(held[h], range_name))

\* what python takes for false in 'get_ip(...) or ...': None; the text of
\* an int or of an address is never empty
Falsy(v) == v = << "None" >>

\* pool.gateway and NetworkPool.gateway:
\* self.get_ip('gateway') or str(self.ip_network[1])
GatewayCall(h) ==
    /\ held[h] # NoObj
    /\ rangeOps < MaxRangeOps
    /\ \/ ~Falsy(GetIp(held[h], "gateway"))
       \/ IndexInRange(IpNetworkOf(held[h]), 1)
    /\ ReadCall(h, "gateway", "gateway",
                IF ~Falsy(GetIp(held[h], "gateway"))
                THEN GetIp(held[h], "gateway")
                ELSE Addr(NetIndex(IpNetworkOf(held[h]), 1)))

\* pool.gateway without a reserved gateway in a subnet that has no index 1:
\* self.ip_network[1] raises IndexError
GatewayIndexError(h) ==
    /\ held[h] # NoObj
    /\ rangeOps < MaxRangeOps
    /\ Falsy(GetIp(held[h], "gateway"))
    /\ ~IndexInRange(IpNetworkOf(held[h]), 1)
    /\ ReadCall(h, "gateway", "gateway", << "IndexError" >>)

NextReads ==
    \/ \E h \in Holders : LoadPool(h)
    \/ \E h \in Holders : IpRangeSet(h)
    \/ \E h \in Holders : IpRangeSetExists(h)
    \/ \E h \in Holders : GetIpCall(h)
    \/ \E h \in Holders : IpRangeStartCall(h)
    \/ \E h \in Holders : IpRangeEndCall(h)
    \/ \E h \in Holders : GatewayCall(h)
    \/ \E h \in Holders : GatewayIndexError(h)

SpecReads == InitReads /\ [][NextReads]_vars

\* ------------------------------------------------------------ all operations
\* the operations on pools together: creation, ranges, reads, host
\* addresses, starting with two pools of another environment and one
\* interface on each device
InitLife ==
    /\ pools = { ResolvedRow(1, "env2", "pool01", HostNet1),
                 ResolvedRow(2, "env2", "pool02", HostNet2) }
    /\ nextId = 3
    /\ pc = [c \in Callers |-> "idle"]
    /\ args = [c \in Callers |-> NoArgs]
    /\ template = [c \in Callers |-> NoParams]
    /\ idx = [c \in Callers |-> 0]
    /\ obj = [c \in Callers |-> NoObj]
    /\ loop = [c \in Callers |-> "none"]
    /\ outcome = [c \in Callers |-> "none"]
    /\ attempts = [c \in Callers |-> << >>]
    /\ nameHeld = [c \in Callers |-> FALSE]
    /\ calls = 0
    /\ interfaces = { [id |-> 1, l2_network_device |-> "dev1"],
                      [id |-> 2, l2_network_device |-> "dev2"],
                      [id |-> 3, l2_network_device |-> "dev3"] }
    /\ addresses = {}
    /\ nextAddr = 1
    /\ apc = [a \in Adders |-> "idle"]
    /\ aif = [a \in Adders |-> 0]
    /\ aip = [a \in Adders |-> 0]
    /\ adds = 0
    /\ RangesIdle
    /\ EnumIdle

\* one client of each kind
LifeCallers == {"c1"}
LifeHolders == {"h1"}
LifeAdders == {"a1"}

\* fewer than MaxOps calls were started
OpsLeft == calls + rangeOps + adds < MaxOps

\* AddressPool.address_pool_create called with a pool of two networks, up
\* to the first statement of _safe_create_network
LifeCreate(c) ==
    /\ OpsLeft
    /\ pc[c] \in {"idle", "done"}
    /\ \E name \in Names, params \in ParamsChoices :
          /\ args' = [args EXCEPT ![c] =
                      [name |-> name, environment |-> "env1",
                       pool |-> << Net0, Net1 >>, params |-> params]]
          /\ template' = [template EXCEPT ![c] = params]
          /\ nameHeld' = [nameHeld EXCEPT ![c] =
                \E r \in pools : /\ r.name = name
                                 /\ r.environment = "env1"]
    /\ pc' = [pc EXCEPT ![c] = "iter"]
    /\ idx' = [idx EXCEPT ![c] = 1]
    /\ obj' = [obj EXCEPT ![c] = NoObj]
    /\ loop' = [loop EXCEPT ![c] = "none"]
    /\ outcome' = [outcome EXCEPT ![c] = "none"]
    /\ attempts' = [attempts EXCEPT ![c] = << >>]
    /\ calls' = calls + 1
    /\ UNCHANGED << pools, nextId >>
    /\ UNCHANGED << addrVars, rangeVars, enumVars >>

LifeRangeSet(h) == OpsLeft /\ (IpRangeSet(h) \/ IpRangeSetExists(h))
LifeIpRange(h) == OpsLeft /\ (IpRangeStored(h) \/ IpRangeDefault(h))
LifeGetIp(h) == OpsLeft /\ GetIpCall(h)
LifeAddAddress(a) == OpsLeft /\ AddAddress(a)

\* one caller alone never loses a subnet between its query and its create
NextLife ==
    \/ \E c \in LifeCallers : LifeCreate(c)
    \/ \E c \in LifeCallers : ExistsQuery(c)
    \/ \E c \in LifeCallers : PoolExhausted(c)
    \/ \E c \in LifeCallers : CreateOk(c)
    \/ \E c \in LifeCallers : CreateNameConflict(c)
    \/ \E c \in LifeCallers : ResolveAndSave(c)
    \/ \E c \in LifeCallers : ResolveIndexError(c)
    \/ \E h \in LifeHolders : LoadPool(h)
    \/ \E h \in LifeHolders : LifeRangeSet(h)
    \/ \E h \in LifeHolders : LifeIpRange(h)
    \/ \E h \in LifeHolders : LifeGetIp(h)
    \/ \E a \in LifeAdders : LifeAddAddress(a)
    \/ \E a \in LifeAdders : NextIpSkip(a)
    \/ \E a \in LifeAdders : NextIpTaken(a)
    \/ \E a \in LifeAdders : NextIpFree(a)
    \/ \E a \in LifeAdders : NextIpNone(a)
    \/ \E a \in LifeAdders : CreateAddress(a)

SpecLife == InitLife /\ [][NextLife]_vars

\* ------------------------------------------------------------ removal
\* two pools whose subnets share addresses (10.1.0.0/30 lies inside
\* 10.1.0.0/29), one interface on each of the devices
HostNet3 == IPNetwork(IPv4(10, 1, 0, 0), 30)

InitFirstFit ==
    /\ pools = { ResolvedRow(1, "env1", "pool01", HostNet1),
                 ResolvedRow(2, "env1", "pool02", HostNet3) }
    /\ nextId = 3
    /\ pc = [c \in Callers |-> "idle"]
    /\ args = [c \in Callers |-> NoArgs]
    /\ template = [c \in Callers |-> NoParams]
    /\ idx = [c \in Callers |-> 0]
    /\ obj = [c \in Callers |-> NoObj]
    /\ loop = [c \in Callers |-> "none"]
    /\ outcome = [c \in Callers |-> "none"]
    /\ attempts = [c \in Callers |-> << >>]
    /\ nameHeld = [c \in Callers |-> FALSE]
    /\ calls = 0
    /\ interfaces = { [id |-> 1, l2_network_device |-> "dev1"],
                      [id |-> 2, l2_network_device |-> "dev2"],
                      [id |-> 3, l2_network_device |-> "dev3"] }
    /\ addresses = {}
    /\ nextAddr = 1
    /\ apc = [a \in Adders |-> "idle"]
    /\ aif = [a \in Adders |-> 0]
    /\ aip = [a \in Adders |-> 0]
    /\ adds = 0
    /\ RangesIdle
    /\ EnumIdle

\* Interface.remove: self.delete() deletes the row and, through the foreign
\* key Address.interface, the Address rows of the interface
InterfaceRemove(i) ==
    /\ \A a \in Adders : apc[a] = "idle"
    /\ interfaces' = interfaces \ {i}
    /\ addresses' = {r \in addresses : r.interface # i.id}
    /\ UNCHANGED << nextAddr, apc, aif, aip, adds >>
    /\ UNCHANGED << poolVars, rangeVars, enumVars >>

NextFirstFit ==
    \/ \E i \in interfaces : AddAddressAlone(i)
    \/ \E i \in interfaces : AddAddressAloneFails(i)
    \/ \E i \in interfaces : InterfaceRemove(i)

SpecFirstFit == InitFirstFit /\ [][NextFirstFit]_vars

\* ------------------------------------------------------------ reserved
\* what the pool of 10.1.0.0/29 was created with: nothing, a gateway at index
\* 2, a gateway at index -2 and a range from index 4 to index 5
ReservedChoices ==
    { [ip_reserved |-> << >>, ip_ranges |-> << >>],
      [ip_reserved |-> [gateway |-> Addr(NetIndex(HostNet1, 2))],
       ip_ranges |-> << >>],
      [ip_reserved |-> [gateway |-> Addr(NetIndex(HostNet1, 0 - 2)),
                        l2_network_device |-> Addr(NetIndex(HostNet1, 3))],
       ip_ranges |-> [default |-> << Addr(NetIndex(HostNet1, 4)),
                                    Addr(NetIndex(HostNet1, 5)) >>]] }

InitReserved ==
    /\ \E ch \in ReservedChoices :
          pools = { [ResolvedRow(1, "env1", "pool01", HostNet1) EXCEPT
                        !.ip_reserved = ch.ip_reserved,
                        !.ip_ranges = ch.ip_ranges],
                    ResolvedRow(2, "env1", "pool02", HostNet2) }
    /\ nextId = 3
    /\ pc = [c \in Callers |-> "idle"]
    /\ args = [c \in Callers |-> NoArgs]
    /\ template = [c \in Callers |-> NoParams]
    /\ idx = [c \in Callers |-> 0]
    /\ obj = [c \in Callers |-> NoObj]
    /\ loop = [c \in Callers |-> "none"]
    /\ outcome = [c \in Callers |-> "none"]
    /\ attempts = [c \in Callers |-> << >>]
    /\ nameHeld = [c \in Callers |-> FALSE]
    /\ calls = 0
    /\ interfaces = { [id |-> 1, l2_network_device |-> "dev1"],
                      [id |-> 2, l2_network_device |-> "dev2"],
                      [id |-> 3, l2_network_device |-> "dev3"] }
    /\ addresses = {}
    /\ nextAddr = 1
    /\ apc = [a \in Adders |-> "idle"]
    /\ aif = [a \in Adders |-> 0]
    /\ aip = [a \in Adders |-> 0]
    /\ adds = 0
    /\ RangesIdle
    /\ EnumIdle

SpecReserved == InitReserved /\ [][NextAlone]_vars

\* ------------------------------------------------------------ next_ip
\* the result of pool.next_ip() run without interruption
NextIpResult(o) ==
    LET ip == NextIp(interfaces, addresses, o.id, IpNetworkOf(o))
    IN IF ip = 0 THEN << "DevopsError" >> ELSE Addr(ip)

\* the Address rows of the pool of an object
RecordsOfPool(rows, pool) ==
    {r \in rows : InterfacePool(interfaces, r.interface) = pool}

\* the record of a next_ip call: the pool, its Address rows when the call
\* was made, the result
NextIpRecord(h, result) ==
    [seq |-> rangeOps + 1, op |-> "next_ip", name |-> "", range |-> << >>,
     pool |-> held[h].id, records |-> RecordsOfPool(addresses, held[h].id),
     result |-> result]

\* next_ip creating the Address row of the address it returns
NextIpCallTakes(h) ==
    /\ held[h] # NoObj
    /\ rangeOps < MaxRangeOps
    /\ \E i \in interfaces :
          /\ DevicePool(i.l2_network_device) = held[h].id
          /\ NextIpResult(held[h]) # << "DevopsError" >>
          /\ addresses' = addresses \cup
                {[id |-> nextAddr, interface |-> i.id,
                  ip_address |-> NextIpResult(held[h])[2]]}
    /\ nextAddr' = nextAddr + 1
    /\ rangeCall' = [[k \in Holders |-> NoCall] EXCEPT ![h] =
          NextIpRecord(h, NextIpResult(held[h]))]
    /\ rangeOps' = rangeOps + 1
    /\ UNCHANGED << held, interfaces, apc, aif, aip, adds >>
    /\ UNCHANGED << poolVars, enumVars >>

\* pool.next_ip() called on a loaded pool: queries only
NextIpCall(h) ==
    /\ held[h] # NoObj
    /\ rangeOps < MaxRangeOps
    /\ rangeCall' = [[k \in Holders |-> NoCall] EXCEPT ![h] =
          NextIpRecord(h, NextIpResult(held[h]))]
    /\ rangeOps' = rangeOps + 1
    /\ UNCHANGED held
    /\ UNCHANGED << poolVars, addrVars, enumVars >>

\* Interface.add_address, one call at a time
NextIpAdd(i) ==
    /\ adds < MaxAdds
    /\ AddAddressAlone(i) \/ AddAddressAloneFails(i)

NextNextIp ==
    \/ \E h \in LifeHolders : LoadPool(h)
    \/ \E h \in LifeHolders : NextIpCall(h)
    \/ \E i \in interfaces : NextIpAdd(i)
    \/ \E i \in interfaces : InterfaceRemove(i)

SpecNextIp == InitFirstFit /\ [][NextNextIp]_vars

\* ------------------------------------------------------------ interfaces
\* an L2NetworkDevice whose address_pool is None, and no device at all
PoollessDevice == "dev4"
NoDevice == "None"

\* the host address allocation starting without interfaces
InitCreate ==
    /\ pools = { ResolvedRow(1, "env1", "pool01", HostNet1),
                 ResolvedRow(2, "env1", "pool02", HostNet2) }
    /\ nextId = 3
    /\ pc = [c \in Callers |-> "idle"]
    /\ args = [c \in Callers |-> NoArgs]
    /\ template = [c \in Callers |-> NoParams]
    /\ idx = [c \in Callers |-> 0]
    /\ obj = [c \in Callers |-> NoObj]
    /\ loop = [c \in Callers |-> "none"]
    /\ outcome = [c \in Callers |-> "none"]
    /\ attempts = [c \in Callers |-> << >>]
    /\ nameHeld = [c \in Callers |-> FALSE]
    /\ calls = 0
    /\ interfaces = {}
    /\ addresses = {}
    /\ nextAddr = 1
    /\ apc = [a \in Adders |-> "idle"]
    /\ aif = [a \in Adders |-> 0]
    /\ aip = [a \in Adders |-> 0]
    /\ adds = 0
    /\ RangesIdle
    /\ EnumIdle

\* the interface_create call of an adder is over
CreateOver(a) ==
    apc[a] \in {"idle", "done", "failed", "index_error", "no_pool"}

\* the row cls.objects.create(...) inserts
NewInterface(dev) ==
    [id |-> Cardinality(interfaces) + 1, l2_network_device |-> dev]

\* Interface.interface_create with a device that has an address_pool: the
\* row is inserted, add_address starts next_ip with the first host
InterfaceCreate(a) ==
    /\ CreateOver(a)
    /\ adds < MaxAdds
    /\ \E dev \in L2Devices :
          /\ interfaces' = interfaces \cup {NewInterface(dev)}
          /\ aif' = [aif EXCEPT ![a] = NewInterface(dev).id]
          /\ aip' = [aip EXCEPT ![a] =
                        FirstHost(IpNetworkOf(PoolRow(pools,
                                                      DevicePool(dev))))]
    /\ apc' = [apc EXCEPT ![a] = "scan"]
    /\ adds' = adds + 1
    /\ UNCHANGED << addresses, nextAddr >>
    /\ UNCHANGED << poolVars, rangeVars, enumVars >>

\* Interface.interface_create without a device, or with a device whose
\* address_pool is None: the row is inserted and returned
InterfaceCreateNoPool(a) ==
    /\ CreateOver(a)
    /\ adds < MaxAdds
    /\ \E dev \in {PoollessDevice, NoDevice} :
          /\ interfaces' = interfaces \cup {NewInterface(dev)}
          /\ aif' = [aif EXCEPT ![a] = NewInterface(dev).id]
    /\ apc' = [apc EXCEPT ![a] = "no_pool"]
    /\ adds' = adds + 1
    /\ UNCHANGED << addresses, nextAddr, aip >>
    /\ UNCHANGED << poolVars, rangeVars, enumVars >>

NextCreate ==
    \/ \E a \in Adders : InterfaceCreate(a)
    \/ \E a \in Adders : InterfaceCreateNoPool(a)
    \/ \E a \in Adders : NextIpSkip(a)
    \/ \E a \in Adders : NextIpTaken(a)
    \/ \E a \in Adders : NextIpFree(a)
    \/ \E a \in Adders : NextIpNone(a)
    \/ \E a \in Adders : CreateAddress(a)

SpecCreate == InitCreate /\ [][NextCreate]_vars

\* ------------------------------------------------------------ templates
\* an offset given as a string with a sign: '+2', '-2'
Signed(i) == << "str", i >>

\* params whose offsets are strings: with a sign, and addresses
SignedParams ==
    { [ip_reserved |-> [gateway |-> Signed(1)]],
      [ip_reserved |-> [gateway |-> Signed(0 - 2)],
       ip_ranges |-> [default |-> << Signed(2), Signed(0 - 2) >>]],
      [ip_reserved |-> [gateway |-> Addr(IPv4(10, 1, 0, 1))]] }

\* address_pool_create called with a name, a pool and params, up to the
\* first statement of _safe_create_network
StartCreate(c, name, pool, params) ==
    /\ pc[c] \in {"idle", "done"}
    /\ calls < MaxCalls
    /\ args' = [args EXCEPT ![c] =
                [name |-> name, environment |-> "env1",
                 pool |-> pool, params |-> params]]
    /\ template' = [template EXCEPT ![c] = params]
    /\ nameHeld' = [nameHeld EXCEPT ![c] =
          \E r \in pools : /\ r.name = name
                           /\ r.environment = "env1"]
    /\ pc' = [pc EXCEPT ![c] = "iter"]
    /\ idx' = [idx EXCEPT ![c] = 1]
    /\ obj' = [obj EXCEPT ![c] = NoObj]
    /\ loop' = [loop EXCEPT ![c] = "none"]
    /\ outcome' = [outcome EXCEPT ![c] = "none"]
    /\ attempts' = [attempts EXCEPT ![c] = << >>]
    /\ calls' = calls + 1
    /\ UNCHANGED << pools, nextId >>
    /\ UNCHANGED << addrVars, rangeVars, enumVars >>

\* address_pool_create called with offsets that are strings
AddressPoolCreateSigned(c) ==
    \E name \in Names, pool \in PoolChoices, params \in SignedParams :
        StartCreate(c, name, pool, params)

NextSigned ==
    \/ \E c \in Callers : AddressPoolCreateSigned(c)
    \/ \E c \in Callers : ExistsQuery(c)
    \/ \E c \in Callers : PoolExhausted(c)
    \/ \E c \in Callers : CreateOk(c)
    \/ \E c \in Callers : CreateNameConflict(c)
    \/ \E c \in Callers : CreateNetConflict(c)
    \/ \E c \in Callers : ResolveAndSave(c)

SpecSigned == Init /\ [][NextSigned]_vars

\* address_pool_create called with mappings of indexes
AddressPoolCreateTemplate(c) ==
    \E name \in Names, pool \in PoolChoices, params \in ParamsChoices :
        StartCreate(c, name, pool, params)

\* address_pool_create called again by a caller whose call returned a pool,
\* with the mappings it passed to that call; first is the pool of that call
AddressPoolCreateReuse(c) ==
    /\ outcome[c] = "created"
    /\ calls < MaxCalls
    /\ \E name \in Names, pool \in PoolChoices :
          args' = [args EXCEPT ![c] =
                      [name |-> name, environment |-> "env1",
                       pool |-> pool, params |-> template[c],
                       first |-> obj[c].id]]
    /\ nameHeld' = [nameHeld EXCEPT ![c] =
          \E r \in pools : /\ r.name = args'[c].name
                           /\ r.environment = "env1"]
    /\ pc' = [pc EXCEPT ![c] = "iter"]
    /\ idx' = [idx EXCEPT ![c] = 1]
    /\ obj' = [obj EXCEPT ![c] = NoObj]
    /\ loop' = [loop EXCEPT ![c] = "none"]
    /\ outcome' = [outcome EXCEPT ![c] = "none"]
    /\ attempts' = [attempts EXCEPT ![c] = << >>]
    /\ calls' = calls + 1
    /\ UNCHANGED << pools, nextId, template >>
    /\ UNCHANGED << addrVars, rangeVars, enumVars >>

NextTemplate ==
    \/ \E c \in Callers : AddressPoolCreateTemplate(c)
    \/ \E c \in Callers : AddressPoolCreateReuse(c)
    \/ \E c \in Callers : ExistsQuery(c)
    \/ \E c \in Callers : PoolExhausted(c)
    \/ \E c \in Callers : CreateOk(c)
    \/ \E c \in Callers : CreateNameConflict(c)
    \/ \E c \in Callers : CreateNetConflict(c)
    \/ \E c \in Callers : ResolveAndSave(c)
    \/ \E c \in Callers : ResolveIndexError(c)

SpecTemplate == Init /\ [][NextTemplate]_vars

\* ------------------------------------------------------------ properties
\* position of a candidate in the pool of a caller (0 when it is not there)
PosIn(s, n) ==
    IF \E i \in DOMAIN s : s[i] = n
    THEN CHOOSE i \in DOMAIN s : s[i] = n /\ \A j \in DOMAIN s : s[j] = n => i <= j
    ELSE 0

\* the row a caller created is still the only one of its name: the name
\* was free for the call
FreeName(c) ==
    \A r \in pools :
        (r.name = args[c].name /\ r.environment = args[c].environment)
            => r.id = obj[c].id

\* C1: no two persisted AddressPool rows hold the same subnet, under any
\* interleaving of the calls and whatever the allocated networks given to
\* the enumerator were
UniqueSubnet == \A r1, r2 \in pools : r1.net = r2.net => r1 = r2

\* C1 witness: a caller was refused a subnet by the constraint on net and
\* two pools are persisted
UniqueSubnetWitness ==
    /\ Cardinality(pools) >= 2
    /\ \E c \in Callers :
          /\ loop[c] = "created"
          /\ \E i \in DOMAIN attempts[c] : NetStr(attempts[c][i]) # obj[c].net

\* two callers handed the same candidate to objects.create, each under a
\* free name, and both left _safe_create_network
Raced(c, d, n) ==
    /\ c # d
    /\ loop[c] # "none" /\ loop[d] # "none"
    /\ FreeName(c) /\ FreeName(d)
    /\ n \in Range(attempts[c]) /\ n \in Range(attempts[d])

\* the caller that lost candidate n: it holds a later candidate of its own
\* pool, or its pool had none left
LostTo(c, n) ==
    /\ obj[c].net # NetStr(n)
    /\ \/ /\ loop[c] = "created"
          /\ \E i \in DOMAIN args[c].pool :
                /\ i > PosIn(args[c].pool, n)
                /\ obj[c].net = NetStr(args[c].pool[i])
       \/ /\ loop[c] = "no_pool"
          /\ \A i \in DOMAIN args[c].pool : NetExists(pools, args[c].pool[i])

\* C2: of two calls with free names racing for one candidate subnet exactly
\* one owns it; the other never ends with a subnet conflict: it holds a later
\* candidate of its pool or ends with "no network pool available"
RaceHasOneWinner ==
    \A c, d \in Callers : \A n \in Range(attempts[c]) :
        Raced(c, d, n) =>
            /\ loop[c] \in {"created", "no_pool"}
            /\ loop[d] \in {"created", "no_pool"}
            /\ (obj[c].net = NetStr(n)) # (obj[d].net = NetStr(n))
            /\ obj[c].net # NetStr(n) => LostTo(c, n)
            /\ obj[d].net # NetStr(n) => LostTo(d, n)

\* C2 witness: a race whose loser took the next candidate of its pool
RaceWitnessNext ==
    \E c, d \in Callers : \E n \in Range(attempts[c]) :
        /\ Raced(c, d, n)
        /\ obj[d].net = NetStr(n)
        /\ loop[c] = "created"

\* a step of caller c that executes the durable create
CreateStep(c) == pc[c] = "create" /\ pc'[c] # "create"

\* C6: a durable create that reports a name conflict ends the call at once
\* with the "already exists" error: no later candidate is tried and the call
\* has created no row
NameConflictAborts ==
    /\ [](\A c \in Callers :
            loop[c] = "name_exists" =>
                /\ pc[c] = "done"
                /\ outcome[c] = "name_exists"
                /\ obj[c] = NoObj
                /\ NameTaken(pools, args[c].name, args[c].environment)
                /\ attempts[c][Len(attempts[c])] = args[c].pool[idx[c]])
    /\ [][\A c \in Callers :
            (/\ CreateStep(c)
             /\ NameTaken(pools, args[c].name, args[c].environment)
             /\ ~NetTaken(pools, args[c].pool[idx[c]]))
            => /\ pc'[c] = "done"
               /\ outcome'[c] = "name_exists"
               /\ idx'[c] = idx[c]
               /\ pools' = pools]_vars

\* C6 witness: a call ended by the name conflict while a later candidate of
\* its pool was free
NameConflictWitness ==
    \E c \in Callers :
        /\ loop[c] = "name_exists"
        /\ idx[c] < Len(args[c].pool)
        /\ ~NetExists(pools, args[c].pool[idx[c] + 1])

\* C7 as claimed: a call started under a name that exists in its environment
\* ends with the name conflict error
NameHeldEndsInNameConflict ==
    \A c \in Callers :
        (nameHeld[c] /\ pc[c] = "done") => outcome[c] = "name_exists"

\* C7 amended: a call started under a name that exists in its environment
\* never creates a pool; it ends with the name conflict error when a durable
\* create was tried, and with "no network pool available" when every
\* candidate of its pool was found claimed
NameHeldNeverCreates ==
    \A c \in Callers :
        nameHeld[c] =>
            /\ loop[c] \in {"none", "name_exists", "no_pool"}
            /\ obj[c] = NoObj
            /\ pc[c] = "done" => outcome[c] \in {"name_exists", "no_pool"}
            /\ outcome[c] = "name_exists" => attempts[c] # << >>
            /\ outcome[c] = "no_pool" =>
                  \A i \in DOMAIN args[c].pool :
                      NetExists(pools, args[c].pool[i])

\* C7 witness: such a call ended with "no network pool available" after
\* looking at a candidate
NameHeldWitness ==
    \E c \in Callers :
        /\ nameHeld[c]
        /\ outcome[c] = "no_pool"
        /\ args[c].pool # << >>

\* C8: a subnet conflict is consumed by the loop: the call goes on with the
\* next candidate of the same pool, no candidate is handed to create twice,
\* and _safe_create_network ends with a pool, the name conflict error or
\* "no network pool available" only
SubnetConflictConsumed ==
    /\ [](\A c \in Callers :
            /\ loop[c] \in {"none", "created", "name_exists", "no_pool"}
            /\ \A i, j \in DOMAIN attempts[c] :
                  i < j => /\ PosIn(args[c].pool, attempts[c][i]) >= 1
                           /\ PosIn(args[c].pool, attempts[c][i])
                                 < PosIn(args[c].pool, attempts[c][j])
                           /\ PosIn(args[c].pool, attempts[c][j]) <= idx[c])
    /\ [][\A c \in Callers :
            (/\ CreateStep(c)
             /\ NetTaken(pools, args[c].pool[idx[c]])
             /\ ~NameTaken(pools, args[c].name, args[c].environment))
            => /\ pc'[c] = "iter"
               /\ idx'[c] = idx[c] + 1
               /\ args'[c] = args[c]
               /\ loop'[c] = "none"
               /\ outcome'[c] = "none"
               /\ pools' = pools]_vars

\* C8 witness: a call that met a subnet conflict and then created its pool
\* from the next candidate
SubnetConflictWitness ==
    \E c \in Callers :
        /\ loop[c] = "created"
        /\ Len(attempts[c]) = 2
        /\ obj[c].net = NetStr(attempts[c][2])

\* C9: a call ends with "no network pool available" exactly when it went
\* through all candidates of its pool without a claim, each of them found
\* claimed; a call with no candidate ends so
NoPoolIffExhausted ==
    \A c \in Callers :
        /\ loop[c] = "no_pool" =>
              /\ pc[c] = "done"
              /\ outcome[c] = "no_pool"
              /\ idx[c] = Len(args[c].pool) + 1
              /\ obj[c] = NoObj
              /\ \A i \in DOMAIN args[c].pool :
                    NetExists(pools, args[c].pool[i])
        /\ (pc[c] = "done" /\ idx[c] > Len(args[c].pool)) =>
              outcome[c] = "no_pool"
        /\ (pc[c] = "done" /\ outcome[c] # "no_pool") =>
              /\ idx[c] <= Len(args[c].pool)
              /\ attempts[c] # << >>

\* C9 witness: a call that ended so after a subnet conflict on its last
\* candidate
NoPoolWitness ==
    \E c \in Callers :
        /\ outcome[c] = "no_pool"
        /\ args[c].pool # << >>
        /\ Len(attempts[c]) = 1

\* C10 as claimed: a call that ended in a failure has left no row of its own
FailedCallLeavesNoRow ==
    \A c \in Callers :
        (pc[c] = "done" /\ outcome[c] \in {"name_exists", "no_pool",
                                            "index_error"})
            => \A r \in pools : r.id # obj[c].id

\* the Address rows of a pool
PoolAddresses(pool) ==
    {r \in addresses : InterfacePool(interfaces, r.interface) = pool}

PoolNet(pool) == IpNetworkOf(PoolRow(pools, pool))

\* C3 as claimed: no two Address rows of one pool hold the same address
NoDuplicateHostAddress ==
    \A r1, r2 \in addresses :
        (/\ r1.ip_address = r2.ip_address
         /\ InterfacePool(interfaces, r1.interface)
               = InterfacePool(interfaces, r2.interface))
            => r1 = r2

\* C4: add_address calls made one after the other on a pool without Address
\* rows: the k-th row of the pool holds the address at index 2 + (k - 1) of
\* the subnet, and a call fails only when a pool has no candidate left
SequentialAddresses ==
    /\ \A r \in addresses :
          LET pool == InterfacePool(interfaces, r.interface)
              k == Cardinality({q \in PoolAddresses(pool) : q.id < r.id})
          IN /\ r.ip_address = NetIndex(PoolNet(pool), 2 + k)
             /\ r.ip_address <= NetIndex(PoolNet(pool), 0 - 2)
    /\ Cardinality(addresses) < adds =>
          \E r \in pools :
              Cardinality(PoolAddresses(r.id)) = NetSize(IpNetworkOf(r)) - 3

\* C4 witness: every candidate of 10.1.0.0/29 has been handed out
SequentialWitness ==
    Cardinality(PoolAddresses(1)) = NetSize(HostNet1) - 3

\* C5: an address returned by next_ip lies between index 2 and index -2 of
\* the subnet: it is not the network address, the address at index 1 or the
\* broadcast address
NextIpWithinHosts ==
    /\ \A a \in Adders :
          apc[a] \in {"create", "done"} =>
              /\ NetIndex(AdderNet(a), 2) <= aip[a]
              /\ aip[a] <= NetIndex(AdderNet(a), 0 - 2)
              /\ aip[a] \notin { NetIndex(AdderNet(a), 0),
                                 NetIndex(AdderNet(a), 1),
                                 NetIndex(AdderNet(a), 0 - 1) }
    /\ \A r \in addresses :
          LET n == PoolNet(InterfacePool(interfaces, r.interface))
          IN NetIndex(n, 2) <= r.ip_address /\ r.ip_address <= NetIndex(n, 0 - 2)

\* C5 witness: next_ip returned an address of a pool that has Address rows
NextIpWitness ==
    \E a \in Adders :
        /\ apc[a] = "create"
        /\ PoolAddresses(AdderPool(a)) # {}
        /\ aip[a] > NetIndex(AdderNet(a), 2)

\* a step in which holder h made a call on the ranges of its object
RangeStep(h) == rangeCall'[h] # rangeCall[h]

\* C11: ip_range_set with a range name the object has fails, and leaves the
\* ranges of the object and the persisted rows as they were
RangeSetExistingFails ==
    [][\A h \in Holders :
          (/\ RangeStep(h)
           /\ rangeCall'[h].op = "ip_range_set"
           /\ rangeCall'[h].name \in DOMAIN held[h].ip_ranges)
          => /\ rangeCall'[h].result = << "error" >>
             /\ held'[h] = held[h]
             /\ pools' = pools]_vars

\* C11 witness: a failed ip_range_set that asked for another range than the
\* one stored
RangeSetExistingWitness ==
    \E h \in Holders :
        /\ rangeCall[h].op = "ip_range_set"
        /\ rangeCall[h].result = << "error" >>
        /\ held[h].ip_ranges[rangeCall[h].name] # rangeCall[h].range

\* C12 as claimed: a range that is persisted for a pool keeps its name and
\* its value in every later state
PersistedRangesNeverChange ==
    [][\A r \in pools : \A k \in DOMAIN r.ip_ranges :
          \E q \in pools' : /\ q.id = r.id
                            /\ k \in DOMAIN q.ip_ranges
                            /\ q.ip_ranges[k] = r.ip_ranges[k]]_vars

\* the values a pool object or row holds: its reserved addresses and the
\* ends of its ranges
StoredValues(o) ==
    {o.ip_reserved[k] : k \in DOMAIN o.ip_reserved}
        \cup {o.ip_ranges[k][1] : k \in DOMAIN o.ip_ranges}
        \cup {o.ip_ranges[k][2] : k \in DOMAIN o.ip_ranges}

\* the address is one of the subnet of the pool
WithinSubnet(o, v) ==
    /\ ~IsIndex(v)
    /\ NetFirst(IpNetworkOf(o)) <= v[2]
    /\ v[2] <= NetLast(IpNetworkOf(o))

\* C13 as claimed: every reserved address and every end of a range of a pool
\* that address_pool_create returned lies in the subnet of the pool
ReturnedValuesWithinSubnet ==
    \A c \in Callers :
        outcome[c] = "created" =>
            \A v \in StoredValues(obj[c]) : WithinSubnet(obj[c], v)

\* the address an offset stands for in a subnet given by its first address
\* and its size: index i from the first address, index -k from the end
Meant(first, size, offset) ==
    IF offset[1] = "int"
    THEN IF offset[2] >= 0 THEN << "ip", first + offset[2] >>
         ELSE << "ip", first + size + offset[2] >>
    ELSE offset

\* C14: in a pool that address_pool_create returned, and in its row, an
\* index i >= 0 has become the address at position i from the network
\* address, an index -k the k-th address from the end, an address itself;
\* get_ip returns it: l2_network_device: 1 in 10.1.0.0/24 gives 10.1.0.1
OffsetsResolved ==
    \A c \in Callers :
        outcome[c] = "created" =>
            LET o == obj[c]
                first == o.net[1]
                size == Pow2(32 - o.net[2])
                given == args[c].params
            IN /\ o \in pools
               /\ "ip_reserved" \in DOMAIN given =>
                     \A k \in DOMAIN given.ip_reserved :
                         GetIp(o, k) = Meant(first, size, given.ip_reserved[k])
               /\ "ip_ranges" \in DOMAIN given =>
                     \A k \in DOMAIN given.ip_ranges :
                         /\ IpRangeStart(o, k)
                               = Meant(first, size, given.ip_ranges[k][1])
                         /\ IpRangeEnd(o, k)
                               = Meant(first, size, given.ip_ranges[k][2])
               /\ (/\ given = [ip_reserved |-> [l2_network_device |-> Index(1)]]
                   /\ o.net = << IPv4(10, 1, 0, 0), 24 >>)
                     => GetIp(o, "l2_network_device")
                           = << "ip", IPv4(10, 1, 0, 1) >>

\* C14 witness: a returned pool whose params held the indexes -1, 0, 255
\* and -256 of a /24
OffsetsResolvedWitness ==
    \E c \in Callers :
        /\ outcome[c] = "created"
        /\ "ip_ranges" \in DOMAIN args[c].params
        /\ "default" \in DOMAIN args[c].params.ip_ranges
        /\ GetIp(obj[c], "gateway") = << "ip", NetLast(IpNetworkOf(obj[c])) >>
        /\ IpRangeEnd(obj[c], "default")
              = << "ip", NetFirst(IpNetworkOf(obj[c])) >>

\* C15 as claimed: every persisted row holds addresses only, never an index
PersistedValuesAreAddresses ==
    \A r \in pools : \A v \in StoredValues(r) : ~IsIndex(v)

\* the addresses from index 2 to index -2 of a subnet
Candidates(n) == { ip \in NetFirst(n) .. NetLast(n) :
                     /\ NetFirst(n) + 2 <= ip
                     /\ ip <= NetLast(n) - 1 }

\* next_ip of an adder ends with this step
NextIpEnds(a) == apc[a] = "scan" /\ apc'[a] # "scan"

\* C16 as claimed: next_ip ends with 'No more free addresses' exactly when
\* every address from index 2 to index -2 has an Address row of the pool,
\* and it returns an address otherwise, whatever the size of the subnet
NextIpFailsIffAllTaken ==
    [][\A a \in Adders :
          NextIpEnds(a) =>
              LET allTaken ==
                      \A ip \in Candidates(AdderNet(a)) :
                          AddressExists(interfaces, addresses, AdderPool(a), ip)
              IN /\ (apc'[a] = "failed") <=> allTaken
                 /\ ~allTaken => /\ apc'[a] = "create"
                                 /\ aip'[a] \in Candidates(AdderNet(a))]_vars

\* the two networks share an address
Overlap(a, b) == NetFirst(a) <= NetLast(b) /\ NetFirst(b) <= NetLast(a)

\* network a lies in network b
Within(a, b) == NetFirst(b) <= NetFirst(a) /\ NetLast(a) <= NetLast(b)

\* the target prefix is not shorter than the prefix of any supernet
ValidPrefix ==
    \A i \in DOMAIN enumIn.networks :
        enumIn.networks[i].prefixlen <= enumIn.prefix

RECURSIVE SumBlocks(_, _)
SumBlocks(networks, prefix) ==
    IF networks = << >> THEN 0
    ELSE Pow2(prefix - Head(networks).prefixlen)
         + SumBlocks(Tail(networks), prefix)

\* C17: with nothing excluded and a target prefix P not shorter than any
\* supernet's, the enumeration has sum of 2^(P - supernet prefix) candidates,
\* each of prefix P and each within a supernet of the list; 10.1.0.0/22 with
\* P = 24 gives the four /24 blocks
EnumerationCount ==
    (enumDone /\ enumIn.allocated = {} /\ ValidPrefix) =>
        /\ Len(enumOut) = SumBlocks(enumIn.networks, enumIn.prefix)
        /\ \A i \in DOMAIN enumOut :
              /\ enumOut[i].prefixlen = enumIn.prefix
              /\ \E j \in DOMAIN enumIn.networks :
                     Within(enumOut[i], enumIn.networks[j])
        /\ (/\ enumIn.networks = << [ip |-> IPv4(10, 1, 0, 0),
                                     prefixlen |-> 22] >>
            /\ enumIn.prefix = 24)
              => Range(enumOut) =
                    { [ip |-> IPv4(10, 1, k, 0), prefixlen |-> 24] :
                          k \in 0 .. 3 }

\* C17 witness: two supernets of different sizes enumerated with nothing
\* excluded: 4 + 2 candidates
EnumerationCountWitness ==
    /\ enumDone
    /\ enumIn.allocated = {}
    /\ ValidPrefix
    /\ Len(enumIn.networks) = 2
    /\ enumIn.networks[1].prefixlen # enumIn.networks[2].prefixlen
    /\ Len(enumOut) = 6

\* the candidates at different positions share no address
CandidatesDisjoint ==
    \A i, j \in DOMAIN enumOut :
        i # j => ~Overlap(enumOut[i], enumOut[j])

\* C18 as claimed: for every list of supernets, overlapping and repeated
\* ones included, the candidates enumerated with nothing excluded are
\* pairwise non-overlapping
CandidatesNeverOverlap ==
    (enumDone /\ enumIn.allocated = {} /\ ValidPrefix) => CandidatesDisjoint

\* no two supernets of the list share an address
SupernetsDisjoint ==
    \A i, j \in DOMAIN enumIn.networks :
        i # j => ~Overlap(enumIn.networks[i], enumIn.networks[j])

\* C18 amended: for every list of pairwise non-overlapping supernets and
\* every valid target prefix, the candidates enumerated with nothing
\* excluded are pairwise non-overlapping
DisjointSupernetsGiveDisjointCandidates ==
    (enumDone /\ enumIn.allocated = {} /\ ValidPrefix /\ SupernetsDisjoint)
        => CandidatesDisjoint

\* C18 witness: two disjoint supernets of different sizes enumerated
DisjointSupernetsWitness ==
    /\ enumDone
    /\ enumIn.allocated = {}
    /\ ValidPrefix
    /\ SupernetsDisjoint
    /\ Len(enumIn.networks) = 2
    /\ enumIn.networks[1].prefixlen # enumIn.networks[2].prefixlen
    /\ Len(enumOut) >= 3

\* the blocks of the prefix in a network, as a set
Blocks(n, prefix) ==
    { [ip |-> b, prefixlen |-> prefix] :
          b \in { a \in NetFirst(n) .. NetLast(n) :
                    /\ a % Pow2(32 - prefix) = 0
                    /\ a + Pow2(32 - prefix) - 1 <= NetLast(n) } }

AllBlocks == UNION { Blocks(enumIn.networks[i], enumIn.prefix) :
                        i \in DOMAIN enumIn.networks }

\* the number of positions of a sequence holding the element
RECURSIVE Occurrences(_, _)
Occurrences(s, e) ==
    IF s = << >> THEN 0
    ELSE (IF Head(s) = e THEN 1 ELSE 0) + Occurrences(Tail(s), e)

\* C19: with an excluded set within the full candidate set, no excluded
\* subnet is enumerated and every other candidate is enumerated, once per
\* supernet holding it, and nothing else; 10.1.0.0/22, P = 24,
\* excluded {10.1.1.0/24, 10.1.3.0/24} gives [10.1.0.0/24, 10.1.2.0/24]
ExcludedRemoved ==
    (enumDone /\ ~enumError /\ enumIn.allocated \subseteq AllBlocks) =>
        /\ \A i \in DOMAIN enumOut : enumOut[i] \in AllBlocks \ enumIn.allocated
        /\ \A b \in AllBlocks \ enumIn.allocated :
              Occurrences(enumOut, b) =
                  Cardinality({ i \in DOMAIN enumIn.networks :
                      b \in Blocks(enumIn.networks[i], enumIn.prefix) })
        /\ (/\ enumIn.networks = << [ip |-> IPv4(10, 1, 0, 0),
                                     prefixlen |-> 22] >>
            /\ enumIn.prefix = 24
            /\ enumIn.allocated =
                  { [ip |-> IPv4(10, 1, 1, 0), prefixlen |-> 24],
                    [ip |-> IPv4(10, 1, 3, 0), prefixlen |-> 24] })
              => enumOut = << [ip |-> IPv4(10, 1, 0, 0), prefixlen |-> 24],
                              [ip |-> IPv4(10, 1, 2, 0), prefixlen |-> 24] >>

\* C19 witness: the example: two of the four blocks of 10.1.0.0/22 excluded
ExcludedRemovedWitness ==
    /\ enumDone
    /\ enumIn.networks = << [ip |-> IPv4(10, 1, 0, 0), prefixlen |-> 22] >>
    /\ enumIn.prefix = 24
    /\ Cardinality(enumIn.allocated) = 2
    /\ enumIn.allocated \subseteq AllBlocks
    /\ Len(enumOut) = 2

\* the sequence is strictly increasing in base address
Increasing(s) == \A i, j \in DOMAIN s : i < j => s[i].ip < s[j].ip

\* a sequence made of one segment per network, in the order of the
\* networks, each segment holding the blocks of its network that are not
\* excluded, in increasing order
RECURSIVE InSupernetOrder(_, _, _, _)
InSupernetOrder(out, networks, prefix, excluded) ==
    IF networks = << >> THEN out = << >>
    ELSE \E k \in 0 .. Len(out) :
            /\ Range(SubSeq(out, 1, k))
                  = Blocks(Head(networks), prefix) \ excluded
            /\ Increasing(SubSeq(out, 1, k))
            /\ InSupernetOrder(SubSeq(out, k + 1, Len(out)),
                               Tail(networks), prefix, excluded)

\* C20: the enumeration is the one sequence its inputs determine: the
\* candidates appear supernet by supernet in input order and in strictly
\* increasing base-address order within each supernet; 10.1.0.0/22 with
\* P = 24 gives 10.1.0.0/24, 10.1.1.0/24, 10.1.2.0/24, 10.1.3.0/24
EnumerationOrdered ==
    (enumDone /\ ~enumError) =>
        /\ InSupernetOrder(enumOut, enumIn.networks, enumIn.prefix,
                           enumIn.allocated)
        /\ (/\ enumIn.networks = << [ip |-> IPv4(10, 1, 0, 0),
                                     prefixlen |-> 22] >>
            /\ enumIn.prefix = 24
            /\ enumIn.allocated = {})
              => enumOut = [k \in 1 .. 4 |->
                               [ip |-> IPv4(10, 1, k - 1, 0),
                                prefixlen |-> 24]]

\* C20 witness: a later supernet of lower addresses enumerated after an
\* earlier one of higher addresses, each with more than one candidate
EnumerationOrderedWitness ==
    /\ enumDone
    /\ ValidPrefix
    /\ Len(enumIn.networks) = 2
    /\ enumIn.networks[1].ip > enumIn.networks[2].ip
    /\ Len(enumOut) >= 4
    /\ enumOut[1].ip > enumOut[Len(enumOut)].ip

CallOf(h, op) == RangeStep(h) /\ rangeCall'[h].op = op

\* C22: get_ip on a name that is not in ip_reserved, ip_range_start and
\* ip_range_end on a name that is not in ip_ranges return None, and neither
\* the object nor any row changes
AbsentNameReadsNone ==
    [][\A h \in Holders :
          /\ (CallOf(h, "get_ip")
                /\ rangeCall'[h].name \notin DOMAIN held[h].ip_reserved)
               => /\ rangeCall'[h].result = << "None" >>
                  /\ held' = held
                  /\ pools' = pools
          /\ ((CallOf(h, "ip_range_start") \/ CallOf(h, "ip_range_end"))
                /\ rangeCall'[h].name \notin DOMAIN held[h].ip_ranges)
               => /\ rangeCall'[h].result = << "None" >>
                  /\ held' = held
                  /\ pools' = pools]_vars

\* C22 witness: get_ip has just returned None for a name the row of the
\* pool does not have, while the pool has another reserved address
AbsentNameWitness ==
    \E h \in Holders :
        /\ rangeCall[h].op = "get_ip"
        /\ rangeCall[h].result = << "None" >>
        /\ rangeCall[h].name \notin DOMAIN held[h].ip_reserved
        /\ DOMAIN held[h].ip_reserved # {}

\* C23: no two rows of the same environment have the same name, and a
\* durable create with a free candidate and a name that only pools of other
\* environments have inserts the row: the call has created its pool
NamesUniquePerEnvironment ==
    /\ [](\A r, q \in pools :
            (r.name = q.name /\ r.environment = q.environment) => r = q)
    /\ [][\A c \in Callers :
            (/\ CreateStep(c)
             /\ \E r \in pools : /\ r.name = args[c].name
                                 /\ r.environment # args[c].environment
             /\ ~\E r \in pools : /\ r.name = args[c].name
                                  /\ r.environment = args[c].environment
             /\ ~\E r \in pools : r.net = NetStr(args[c].pool[idx[c]]))
            => /\ loop'[c] = "created"
               /\ \E r \in pools' \ pools :
                     /\ r.name = args[c].name
                     /\ r.environment = args[c].environment
                     /\ r.net = NetStr(args[c].pool[idx[c]])
                     /\ obj'[c].id = r.id]_vars

\* C23 witness: two pools of the same name in two environments, the second
\* returned to its caller
SameNameTwoEnvironmentsWitness ==
    \E r, q \in pools : \E c \in Callers :
        /\ r.name = q.name
        /\ r.environment # q.environment
        /\ r.id < q.id
        /\ outcome[c] = "created"
        /\ obj[c].id = q.id

\* C24 as claimed: the gateway of a pool is always defined: the reserved
\* address named 'gateway' when there is one, else the address at index 1
\* of the subnet
GatewayAlwaysDefined ==
    [][\A h \in Holders :
          CallOf(h, "gateway") =>
              rangeCall'[h].result =
                  IF "gateway" \in DOMAIN held[h].ip_reserved
                  THEN TextOf(held[h].ip_reserved["gateway"])
                  ELSE << "ip", held[h].net[1] + 1 >>]_vars

\* C25 as claimed: no two persisted pools hold subnets that share an
\* address, whatever the target prefixes they were carved with
PoolsNeverOverlap ==
    \A r, q \in pools :
        r # q => ~Overlap(IpNetworkOf(r), IpNetworkOf(q))

\* C26: the subnet of a persisted pool never changes: after every step of
\* pool creation and offset resolution, ip_range_set, NetworkPool.ip_range,
\* get_ip, next_ip and Interface.add_address, every row that was there is
\* still there with the same net
SubnetImmutable ==
    [][\A r \in pools :
          \E q \in pools' : q.id = r.id /\ q.net = r.net]_vars

\* C26 witness: a pool that was there from the start has been saved with a
\* new range, a created pool has been saved with its resolved offsets and
\* an address has been added
SubnetImmutableWitness ==
    /\ \E r \in pools : r.id <= 2 /\ r.ip_ranges # << >>
    /\ \E c \in Callers : /\ outcome[c] = "created"
                          /\ obj[c] \in pools
                          /\ obj[c].ip_reserved # << >>
    /\ addresses # {}

\* C27: every pool-creation call terminates, with at most one create
\* attempt per enumerated candidate, and _safe_create_network fails only
\* when the name is held by another pool of the environment (name
\* conflict) or when every candidate of the enumeration is claimed by
\* other pools (no pool available): a call with a free name and a candidate
\* nobody else claims gets its pool
CreationProgress ==
    /\ \A c \in Callers :
          (pc[c] \notin {"idle", "done"}) ~> (pc[c] = "done")
    /\ [](\A c \in Callers :
            /\ Len(attempts[c]) <= Len(args[c].pool)
            /\ \A i, j \in DOMAIN attempts[c] :
                  i # j => attempts[c][i] # attempts[c][j]
            /\ (pc[c] = "done" /\ loop[c] = "no_pool") =>
                  \A i \in DOMAIN args[c].pool :
                      \E r \in pools : r.net = NetStr(args[c].pool[i])
            /\ (pc[c] = "done" /\ loop[c] = "name_exists") =>
                  \E r \in pools : /\ r.name = args[c].name
                                   /\ r.environment = args[c].environment
            /\ (pc[c] = "done" /\ outcome[c] # "config_error") =>
                  loop[c] \in {"created", "no_pool", "name_exists"})

\* C27 witness: a call lost its first candidate to the other caller and
\* claimed the second
CreationProgressWitness ==
    \E c \in Callers :
        /\ loop[c] = "created"
        /\ Len(attempts[c]) = 2
        /\ \E r \in pools : /\ r.net = NetStr(attempts[c][1])
                            /\ r.id # obj[c].id

\* the Address rows reached from a pool through interface ->
\* l2_network_device -> address_pool
RecordsOf(pool) ==
    {r \in addresses :
        \E i \in interfaces : /\ i.id = r.interface
                               /\ DevicePool(i.l2_network_device) = pool}

\* the addresses in [index 2, index -2] of the pool without a record of it
FreeOf(pool) ==
    {ip \in Candidates(PoolNet(pool)) :
        \A r \in RecordsOf(pool) : r.ip_address # ip}

\* C28: an add_address that is not interrupted stores the lowest address in
\* [index 2, index -2] of the subnet that has no Address record in the pool of
\* the interface, whatever records other pools hold, and it fails only when
\* the pool has no such address
FirstFit ==
    [][\A r \in addresses' \ addresses :
           LET pool == DevicePool(
                   (CHOOSE i \in interfaces : i.id = r.interface)
                       .l2_network_device)
           IN /\ r.ip_address \in FreeOf(pool)
              /\ \A ip \in FreeOf(pool) : r.ip_address <= ip]_vars
    /\ [][(adds' = adds + 1 /\ addresses' = addresses) =>
             \E p \in {1, 2} : FreeOf(p) = {}]_vars

\* C28 witness: a record of 10.1.0.0/29 was deleted and its address handed
\* out again below a record that was created earlier, and the two pools hold
\* a record of the same address
FirstFitWitness ==
    /\ \E r, q \in RecordsOf(1) : r.id > q.id /\ r.ip_address < q.ip_address
    /\ \E r \in RecordsOf(1) : \E q \in RecordsOf(2) :
           r.ip_address = q.ip_address

\* the call of a holder that this step makes reads a value the object holds
ReadsStored(h) ==
    \/ /\ CallOf(h, "get_ip")
       /\ rangeCall'[h].name \in DOMAIN held[h].ip_reserved
    \/ /\ CallOf(h, "ip_range")
       /\ EffectiveName(h, rangeCall'[h].name) \in DOMAIN held[h].ip_ranges

\* C29: resolving the values of a pool that address_pool_create returned a
\* second time gives the same values; a read of a reserved address or of a
\* range returns the address the object holds and changes neither the object
\* nor a row; and no call on the object changes a value it holds, so that
\* reading again returns the same address
ResolutionIdempotent ==
    /\ [](\A c \in Callers :
            (pc[c] = "done" /\ outcome[c] = "created") =>
                \A v \in StoredValues(obj[c]) :
                    /\ ~IsIndex(v)
                    /\ RelativeToIp(IpNetworkOf(obj[c]), v) = v)
    /\ [][\A h \in Holders :
            ReadsStored(h) =>
                /\ held' = held
                /\ pools' = pools
                /\ CallOf(h, "get_ip") =>
                      LET v == held[h].ip_reserved[rangeCall'[h].name]
                      IN ~IsIndex(v) => rangeCall'[h].result = v
                /\ CallOf(h, "ip_range") =>
                      LET r == held[h].ip_ranges[
                                  EffectiveName(h, rangeCall'[h].name)]
                      IN (~IsIndex(r[1]) /\ ~IsIndex(r[2]))
                            => rangeCall'[h].result = r]_vars
    /\ [][\A h \in Holders :
            (held[h] # NoObj /\ rangeOps' # rangeOps) =>
                /\ held'[h].ip_reserved = held[h].ip_reserved
                /\ \A k \in DOMAIN held[h].ip_ranges :
                      /\ k \in DOMAIN held'[h].ip_ranges
                      /\ held'[h].ip_ranges[k] = held[h].ip_ranges[k]]_vars

\* C29 witness: get_ip has just returned the address that a pool created
\* with an index holds, and the object holds a range besides
ResolutionIdempotentWitness ==
    \E h \in Holders :
        /\ rangeCall[h].op = "get_ip"
        /\ rangeCall[h].result = Addr(NetIndex(IpNetworkOf(held[h]), 1))
        /\ held[h].id >= 3
        /\ DOMAIN held[h].ip_ranges # {}

\* C30 as claimed: once a range is stored for a pool under a name, every
\* later ip_range call with that name (None standing for the name of the
\* group) returns the stored range, whatever relative_start and relative_end
\* it is called with
IpRangeReturnsFirstStored ==
    [][\A h \in Holders :
          CallOf(h, "ip_range") =>
              LET name == EffectiveName(h, rangeCall'[h].name)
                  row == PoolRow(pools, held[h].id)
              IN name \in DOMAIN row.ip_ranges =>
                    /\ rangeCall'[h].result = row.ip_ranges[name]
                    /\ PoolRow(pools', held[h].id).ip_ranges[name]
                          = row.ip_ranges[name]]_vars

\* the address a string offset stands for as documented: a string with a
\* sign is an index into the subnet, any other string an address
MeantByString(ip_network, offset) ==
    IF offset[1] = "str" THEN Addr(NetIndex(ip_network, offset[2]))
    ELSE offset

\* C31 as claimed: in a pool that address_pool_create returned, an offset
\* given as a string with a sign has become the address at that index of the
\* subnet, and any other string is the address itself
SignedStringIsIndex ==
    \A c \in Callers :
        outcome[c] = "created" =>
            LET o == obj[c]
                given == args[c].params
            IN /\ "ip_reserved" \in DOMAIN given =>
                     \A k \in DOMAIN given.ip_reserved :
                         GetIp(o, k) = MeantByString(IpNetworkOf(o),
                                                     given.ip_reserved[k])
               /\ "ip_ranges" \in DOMAIN given =>
                     \A k \in DOMAIN given.ip_ranges :
                         /\ IpRangeStart(o, k)
                               = MeantByString(IpNetworkOf(o),
                                               given.ip_ranges[k][1])
                         /\ IpRangeEnd(o, k)
                               = MeantByString(IpNetworkOf(o),
                                               given.ip_ranges[k][2])

\* the values of a mapping of params
MappingValues(params) ==
    (IF "ip_reserved" \in DOMAIN params
     THEN {params.ip_reserved[k] : k \in DOMAIN params.ip_reserved} ELSE {})
    \cup
    (IF "ip_ranges" \in DOMAIN params
     THEN UNION {{params.ip_ranges[k][1], params.ip_ranges[k][2]} :
                    k \in DOMAIN params.ip_ranges} ELSE {})

\* C34: after address_pool_create returned a pool, the mappings the caller
\* passed hold the addresses of that pool and no index; a pool created by a
\* second call with the same mappings, in another subnet, holds the
\* addresses of the first pool
TemplateRewrittenInPlace ==
    \A c \in Callers :
        outcome[c] = "created" =>
            /\ \A v \in MappingValues(template[c]) : ~IsIndex(v)
            /\ "ip_reserved" \in DOMAIN template[c] =>
                  \A k \in DOMAIN template[c].ip_reserved :
                      template[c].ip_reserved[k] = obj[c].ip_reserved[k]
            /\ "ip_ranges" \in DOMAIN template[c] =>
                  \A k \in DOMAIN template[c].ip_ranges :
                      template[c].ip_ranges[k] = obj[c].ip_ranges[k]
            /\ "first" \in DOMAIN args[c] =>
                  LET f == PoolRow(pools, args[c].first)
                  IN /\ obj[c].net # f.net
                     /\ obj[c].ip_reserved = f.ip_reserved
                     /\ obj[c].ip_ranges = f.ip_ranges
                     /\ PoolRow(pools, obj[c].id) = obj[c]

\* C34 witness: a second call with the mappings of the first has returned a
\* pool in 10.1.1.0/24 whose l2_network_device address is 10.1.0.1
TemplateRewrittenWitness ==
    \E c \in Callers :
        /\ outcome[c] = "created"
        /\ "first" \in DOMAIN args[c]
        /\ IpNetworkOf(obj[c]) = Net1
        /\ "l2_network_device" \in DOMAIN obj[c].ip_reserved
        /\ obj[c].ip_reserved["l2_network_device"] = Addr(NetIndex(Net0, 1))

\* C32: a next_ip call creates and deletes no Address row and changes no
\* pool, no object and no interface; it returns an address that has no row
\* in the pool; and it returns what the call before it on the same pool
\* returned when the Address rows of the pool are the ones of that call
NextIpPureRead ==
    [][\A h \in Holders :
          CallOf(h, "next_ip") =>
              /\ addresses' = addresses
              /\ nextAddr' = nextAddr
              /\ interfaces' = interfaces
              /\ pools' = pools
              /\ held' = held
              /\ \A r \in RecordsOf(held[h].id) :
                    rangeCall'[h].result # Addr(r.ip_address)
              /\ (/\ rangeCall[h].op = "next_ip"
                  /\ rangeCall[h].pool = held[h].id
                  /\ rangeCall[h].records = RecordsOf(held[h].id))
                    => rangeCall'[h].result = rangeCall[h].result]_vars

\* C32 witness: next_ip has returned 10.1.0.3 twice in a row for a pool
\* whose only Address row holds 10.1.0.2
NextIpPureReadWitness ==
    \E h \in Holders :
        /\ rangeCall[h].op = "next_ip"
        /\ rangeCall[h].seq >= 2
        /\ rangeCall[h].result = Addr(NetIndex(HostNet1, 3))
        /\ rangeCall[h].records = RecordsOf(1)
        /\ Cardinality(RecordsOf(1)) = 1

\* C33: whatever ip_reserved and ip_ranges of a pool hold, the addresses
\* that add_address calls made one after the other have handed out are the
\* lowest addresses from index 2 of the subnet, reserved ones and ones
\* outside the ranges included, and a call fails only when every address up
\* to index -2 of a pool has a row
ReservedHandedOut ==
    /\ \A r \in pools :
          \A ip \in Candidates(IpNetworkOf(r)) :
              (\E q \in RecordsOf(r.id) : q.ip_address = ip)
                 <=> ip < NetIndex(IpNetworkOf(r), 2)
                            + Cardinality(RecordsOf(r.id))
    /\ Cardinality(addresses) < adds =>
          \E r \in pools :
              \A ip \in Candidates(IpNetworkOf(r)) :
                  \E q \in RecordsOf(r.id) : q.ip_address = ip

\* C33 witness: the pool of 10.1.0.0/29 has a row for its gateway, for its
\* l2_network_device address and for an address outside its range default
ReservedHandedOutWitness ==
    \E r \in pools :
        /\ "gateway" \in DOMAIN r.ip_reserved
        /\ "default" \in DOMAIN r.ip_ranges
        /\ \A k \in DOMAIN r.ip_reserved :
              \E q \in RecordsOf(r.id) : Addr(q.ip_address) = r.ip_reserved[k]
        /\ \E q \in RecordsOf(r.id) :
              \/ Addr(q.ip_address)[2] < r.ip_ranges["default"][1][2]
              \/ Addr(q.ip_address)[2] > r.ip_ranges["default"][2][2]

\* the Address rows of an interface
AddressesOf(rows, id) == {r \in rows : r.interface = id}

\* C35: interface_create inserts one Interface row; for a device with a
\* pool it then inserts exactly one Address row of the new interface, with
\* the address next_ip returned, which lies between index 2 and index -2 of
\* the subnet of the pool of the device; without a device or without a pool
\* it inserts none; and when next_ip raises, no Address row is inserted and
\* the Interface row stays
InterfaceCreateAddresses ==
    /\ [](\A i \in interfaces :
            /\ Cardinality(AddressesOf(addresses, i.id)) <= 1
            /\ DevicePool(i.l2_network_device) = 0
                  => AddressesOf(addresses, i.id) = {})
    /\ [][\A a \in Adders :
            /\ (CreateOver(a) /\ ~CreateOver(a)' /\ apc'[a] = "scan") =>
                  /\ Cardinality(interfaces' \ interfaces) = 1
                  /\ interfaces \subseteq interfaces'
                  /\ addresses' = addresses
                  /\ AddressesOf(addresses, aif'[a]) = {}
            /\ (apc'[a] = "no_pool" /\ adds' # adds /\ aif'[a] # aif[a]) =>
                  /\ Cardinality(interfaces' \ interfaces) = 1
                  /\ addresses' = addresses
                  /\ AddressesOf(addresses', aif'[a]) = {}
            /\ (apc[a] = "create" /\ apc'[a] = "done") =>
                  /\ interfaces' = interfaces
                  /\ AddressesOf(addresses, aif[a]) = {}
                  /\ addresses' \ addresses =
                        AddressesOf(addresses', aif[a])
                  /\ Cardinality(AddressesOf(addresses', aif[a])) = 1
                  /\ \A r \in AddressesOf(addresses', aif[a]) :
                        /\ r.ip_address = aip[a]
                        /\ r.ip_address \in Candidates(AdderNet(a))
            /\ (apc[a] = "scan" /\ apc'[a] = "failed") =>
                  /\ interfaces' = interfaces
                  /\ \E i \in interfaces' : i.id = aif[a]
                  /\ addresses' = addresses
                  /\ AddressesOf(addresses', aif[a]) = {}
                  /\ \A ip \in Candidates(AdderNet(a)) :
                        \E r \in RecordsOf(AdderPool(a)) :
                            r.ip_address = ip]_vars

\* C35 witness: next_ip has failed for a new interface of the pool
\* 10.1.0.8/30, whose only candidate another interface holds; the new
\* interface is persisted without an Address row, and so is an interface of a
\* device without a pool
InterfaceCreateWitness ==
    \E a \in Adders :
        /\ apc[a] = "failed"
        /\ \E i \in interfaces : i.id = aif[a] /\ i.l2_network_device = "dev3"
        /\ AddressesOf(addresses, aif[a]) = {}
        /\ Cardinality(RecordsOf(2)) = 1
        /\ \E i \in interfaces : DevicePool(i.l2_network_device) = 0

====
